---- MODULE Spec2Model ----
(***************************************************************************)
(* Model of snowbreak_gacha_export.                                        *)
(*                                                                         *)
(*  - The OCR dispatch engine of src/src/ocr_server.rs: OcrClient::send,   *)
(*    the acceptor/correlator OcrServer2::run, the dispatcher              *)
(*    OcrServer1::run and the task it spawns per request.  The program     *)
(*    runs on tokio's multi-threaded runtime (#[tokio::main]), so spawned  *)
(*    tasks interleave at every access to shared state (the pool mutex and *)
(*    the channels).                                                       *)
(*    Spec has callers that keep their receivers, DropSpec callers that    *)
(*    may drop them.                                                       *)
(*  - The record reconciler merge_gacha_records of src/src/record.rs, a    *)
(*    pure function, applied to inputs drawn from a bounded set, and the   *)
(*    files main writes after it (MergeSpec).                              *)
(*  - The pagination run of src/src/main.rs (PageSpec, PageLiveSpec).      *)
(*  - The two page classifiers of src/src/record.rs and                    *)
(*    src/src/record_image.rs as functions of a page (ClassSpec), and the  *)
(*    tasks main spawns to classify the accepted pages (ScanSpec).         *)
(*  - The shared capture handle of src/src/capture.rs (CaptureSpec).       *)
(***************************************************************************)
EXTENDS Integers, Sequences, FiniteSets, TLC

(***************************************************************************)
(* Bounds.                                                                 *)
(***************************************************************************)
\* number of OcrClient::send calls in one run (last_id is a u64 in the code;
\* the bound stays far below 2^64, so the increment never wraps)
MaxRequests == 3
\* total number of records in the two inputs of one merge
MaxRecords == 5
\* timestamps are 1..MaxTime
MaxTime == 2
\* the listing has 1..MaxPages pages
MaxPages == 3
\* the poll timeout of Advancing (1.0 s in the code) in clock ticks
PollTimeout == 2
\* Rewinding gives up once click_time exceeds this
MaxRewindClicks == 20
\* row positions of a page (10 in the code)
MaxRows == 3
\* RecordImage::stars: a colour matches within this Euclidean distance
ACCURACY == 5
\* merge_gacha_records' recursion is followed to this depth
DepthCap == 4
\* threads calling into capture.rs
MaxCallers == 2
\* capture.rs calls started in one run
MaxCalls == 3
\* accepted pages handed to the classification after the pagination run
ScanPages == 2
\* row positions of a page in the classification run (10 in the code)
ScanRows == 2

VARIABLES
    last_id,                   \* OcrClient.last_id
    sent,                      \* history: the ids carried by the send calls, in call order
    id_img_result_channel,     \* client -> OcrServer2, unbounded mpsc
    id_result_txs,             \* OcrServer2.id_result_txs: id -> oneshot sender
    id_img,                    \* OcrServer2 -> OcrServer1, unbounded mpsc
    tasks,                     \* the tasks spawned by OcrServer1::run, in spawn order
    ocr_processors,            \* OcrServer1.ocr_processors: Vec<Ppocr> behind a Mutex
    workers_created,           \* number of successful Ppocr::new calls
    result_ch,                 \* tasks -> OcrServer2, unbounded mpsc (result_tx/result_rx)
    rx,                        \* per request: what its oneshot receiver has received
    ocr_calls,                 \* history: per request, number of Ppocr::ocr invocations
    server2_alive,             \* FALSE once OcrServer2::run has panicked
    pool_lock,                 \* the task holding the ocr_processors mutex (0: nobody)
    peak_in_flight,            \* history: the most requests that were unanswered at one time
    rx_dropped,                \* the requests whose caller has dropped the oneshot receiver
    new_records,               \* merge_gacha_records argument
    old_records,               \* merge_gacha_records argument
    merge_result,              \* what merge_gacha_records returned, or NoResult
    main_pc,                   \* where main is between the merge and its exit
    files,                     \* the record files main writes: name -> content or NoFile
    writes,                    \* history: the names of the files written, in order
    page_pc,                   \* where main is in the pagination run
    record_screens,            \* main's record_screens: the accepted pages, in order
    click_time,                \* main's click_time: previous-page clicks of Rewinding
    page_img,                  \* the frame the controller holds, or NoImg
    elapsed,                   \* ticks since start = Instant::now(), capped
    next_clicks,               \* history: next-page clicks injected so far
    error,                     \* what was logged by log::error! before returning, or the panic
    total_pages,               \* the listing: number of pages
    ui_shown,                  \* the page the game shows (0: not the listing)
    ui_target,                 \* the page the game will show once it has re-rendered
    window,                    \* the client area of the game window
    class_pc,                  \* which classifier function is applied next
    page,                      \* the page image handed to the classifier
    screen_result,             \* what RecordScreen::gacha_records returned
    image_result,              \* what RecordImage::records returned, or its panic
    image_verdict,             \* what RecordImage::is_record_image returned
    CLIENT_CAPTURE,            \* the shared slot: "some" (holds the handle) or "none"
    capture_poisoned,          \* the slot's mutex was poisoned by a panic under the lock
    capture_stopped,           \* client_capture.stop() was called on the handle
    callers,                   \* per thread: the capture.rs call it is in and where
    calls_made,                \* history: number of calls started
    scan_pc,                   \* where main is in the classification of the accepted pages
    page_tasks,                \* per page: where its spawned gacha_records() task is
    row_tasks,                 \* per row: where its spawned gacha_record() task is
    field_sent,                \* history: the fields whose image was sent to the OCR engine
    in_flight,                 \* the fields sent to the OCR engine and not yet answered
    completed,                 \* history: the row tasks <<p, r>> and page tasks <<p, 0>> in the order they ended
    page_results,              \* per page: what its gacha_records() returned
    scanned                    \* main's gacha_records: the scanned sequence

ocr_vars == <<last_id, sent, id_img_result_channel, id_result_txs, id_img, tasks,
              ocr_processors, workers_created, result_ch, rx, ocr_calls, server2_alive,
              pool_lock, peak_in_flight>>
merge_vars == <<new_records, old_records, merge_result, main_pc, files, writes>>
page_vars == <<page_pc, record_screens, click_time, page_img, elapsed, next_clicks, error,
               total_pages, ui_shown, ui_target, window>>
class_vars == <<class_pc, page, screen_result, image_result, image_verdict>>
capture_vars == <<CLIENT_CAPTURE, capture_poisoned, capture_stopped, callers, calls_made>>
scan_vars == <<scan_pc, page_tasks, row_tasks, field_sent, in_flight, completed,
               page_results, scanned>>
non_ocr_vars == <<merge_vars, page_vars, class_vars, capture_vars, scan_vars, rx_dropped>>
non_merge_vars == <<ocr_vars, page_vars, class_vars, capture_vars, scan_vars, rx_dropped>>
non_page_vars == <<ocr_vars, merge_vars, class_vars, capture_vars, scan_vars, rx_dropped>>
non_class_vars == <<ocr_vars, merge_vars, page_vars, capture_vars, scan_vars, rx_dropped>>
non_capture_vars == <<ocr_vars, merge_vars, page_vars, class_vars, scan_vars, rx_dropped>>
non_scan_vars == <<ocr_vars, merge_vars, page_vars, class_vars, capture_vars, rx_dropped>>
vars == <<last_id, sent, id_img_result_channel, id_result_txs, id_img, tasks,
          ocr_processors, workers_created, result_ch, rx, ocr_calls, server2_alive,
          pool_lock, peak_in_flight,
          new_records, old_records, merge_result, main_pc, files, writes,
          page_pc, record_screens, click_time, page_img, elapsed, next_clicks, error,
          total_pages, ui_shown, ui_target, window,
          class_pc, page, screen_result, image_result, image_verdict,
          CLIENT_CAPTURE, capture_poisoned, capture_stopped, callers, calls_made,
          scan_pc, page_tasks, row_tasks, field_sent, in_flight, completed,
          page_results, scanned, rx_dropped>>

Requests == 1..MaxRequests
Callers == 1..MaxCallers
\* a row task is named by its page and its row position
RowIds == (1..ScanPages) \X (1..ScanRows)
\* the fields of a row decoded by OCR, in the order gacha_record() names them
RowFields == <<"item_name", "item_type", "timestamp">>

(***************************************************************************)
(* merge_gacha_records (src/src/record.rs)                                 *)
(***************************************************************************)
Names == {"a", "b"}

\* GachaRecord; star and item_type take one value each, item_name two, so that
\* two records can share a timestamp and still differ
GachaRecord == [star : {5}, item_name : Names, item_type : {"Character"},
                timestamp : 1..MaxTime]

NoResult == [ok |-> FALSE, called |-> FALSE]
MergeErr == [ok |-> FALSE, called |-> TRUE]
MergeOk(records, add_num) ==
    [ok |-> TRUE, called |-> TRUE, records |-> records, added |-> add_num]

\* the files of one pull category: gacha_records/{file_name}.csv, its timestamped
\* copy, and the two files of the log folder
FileNames == {"store", "store_copy", "log_old", "log_this_time"}
NoFile == "absent"

\* a classifier function that has not been applied yet
NotCalled == [kind |-> "not_called"]

\* no frame: get_img or client_img returned Err
NoImg == [page |-> 0, ratio169 |-> FALSE, canonical |-> FALSE, grabbed |-> FALSE]
\* index() returned Err (a decoded page index is at least 1)
Err == 0

Min(a, b) == IF a < b THEN a ELSE b
Max(a, b) == IF a > b THEN a ELSE b

\* new_records[new_records_len - i..] == old_records[..i]
TailEqualsHead(new, old, i) ==
    SubSeq(new, Len(new) - i + 1, Len(new)) = SubSeq(old, 1, i)

\* a bug: the scan runs upward and stops at the smallest match
same_num_smallest(new, old) ==
    LET min_len == Min(Len(new), Len(old))
        hits == {i \in 1..min_len : TailEqualsHead(new, old, i)}
    IN  IF hits = {} THEN 0 ELSE CHOOSE i \in hits : \A j \in hits : i <= j

\* for i in (1..=min_len).rev() { if ... { same_num = i; break; } }
same_num(new, old) ==
    LET min_len == Min(Len(new), Len(old))
        hits == {i \in 1..min_len : TailEqualsHead(new, old, i)}
    IN  IF hits = {} THEN 0 ELSE CHOOSE i \in hits : \A j \in hits : j <= i

\* a bug: the overlap is not cut off
merged_records_keeps_overlap(new, old) == new \o old

\* a bug: the overlap is cut off both sides
merged_records_loses_overlap(new, old) ==
    SubSeq(new, 1, Len(new) - same_num(new, old))
        \o SubSeq(old, same_num(new, old) + 1, Len(old))

\* new_records[..new_records_len - same_num].iter().chain(old_records.iter())
merged_records(new, old) ==
    SubSeq(new, 1, Len(new) - same_num(new, old)) \o old

\* a bug: a record as late as the one before it is rejected too
is_timestamp_desc_rejects_ties(records) ==
    \A i \in 2..Len(records) : ~(records[i].timestamp >= records[i - 1].timestamp)

\* a bug: the loop stops one record early
is_timestamp_desc_skips_last(records) ==
    \A i \in 2..(Len(records) - 1) : ~(records[i].timestamp > records[i - 1].timestamp)

\* the closure is_timestamp_desc
is_timestamp_desc(records) ==
    \A i \in 2..Len(records) : ~(records[i].timestamp > records[i - 1].timestamp)

RECURSIVE merge_gacha_records(_, _)

\* a bug: the second early return reports no added record
merge_gacha_records_empty_old_adds_nothing(new, old) ==
    IF new = <<>> THEN MergeOk(old, 0)
    ELSE IF old = <<>> THEN MergeOk(new, 0)
    ELSE IF new[1].timestamp < old[1].timestamp THEN merge_gacha_records(old, new)
    ELSE IF ~is_timestamp_desc(merged_records(new, old)) THEN MergeErr
    ELSE MergeOk(merged_records(new, old), Len(new) - same_num(new, old))

merge_gacha_records(new, old) ==
    IF new = <<>> THEN MergeOk(old, 0)
    ELSE IF old = <<>> THEN MergeOk(new, Len(new))
    ELSE IF new[1].timestamp < old[1].timestamp THEN merge_gacha_records(old, new)
    ELSE IF ~is_timestamp_desc(merged_records(new, old)) THEN MergeErr
    ELSE MergeOk(merged_records(new, old), Len(new) - same_num(new, old))

RECURSIVE merge_depth_swaps_on_tie(_, _, _)
RECURSIVE merge_depth(_, _, _)

\* a bug: the sides are swapped on equal first timestamps too
merge_depth_swaps_on_tie(new, old, depth) ==
    IF depth > DepthCap THEN depth
    ELSE IF new = <<>> THEN depth
    ELSE IF old = <<>> THEN depth
    ELSE IF new[1].timestamp <= old[1].timestamp
    THEN merge_depth_swaps_on_tie(old, new, depth + 1)
    ELSE depth

\* the call structure of merge_gacha_records: the depth of the deepest call, the
\* outermost call being at `depth` (followed no further than DepthCap)
merge_depth(new, old, depth) ==
    IF depth > DepthCap THEN depth
    ELSE IF new = <<>> THEN depth
    ELSE IF old = <<>> THEN depth
    ELSE IF new[1].timestamp < old[1].timestamp THEN merge_depth(old, new, depth + 1)
    ELSE depth

(***************************************************************************)
(* OCR dispatch engine (src/src/ocr_server.rs)                             *)
(***************************************************************************)
\* what Ppocr::ocr returned as Ok(result_json), by how far the task's parsing gets:
\*   "text"          code 100 and data[0].text is a string           (line 164)
\*   "unparseable"   not JSON, or no integer "code"                  (lines 107-124)
\*   "code_not_100"  a status code other than 100                    (lines 125-130)
\*   "no_text"       no "data" array, no first item, or no "text"    (lines 131-163)
Jsons == {"text", "unparseable", "code_not_100", "no_text"}

\* the anyhow::Result<String> a task sends for each json
ParseKind(json) ==
    CASE json = "text" -> "Ok"
      [] json = "unparseable" -> "ErrParse"
      [] json = "code_not_100" -> "ErrCode"
      [] json = "no_text" -> "ErrNoText"

\* a result value: its kind, and the request whose image it was produced from
Result(kind, img) == [kind |-> kind, img |-> img]

\* a spawned task: its position, its captured (id, img), the Ppocr it owns (0: none)
\* and, once it has returned, the result it sent
NewTask(id, img) == [pc |-> "encode", id |-> id, img |-> img, worker |-> 0, out |-> "none"]

\* a bug: the backend-error path returns without sending its result
SendAndReturnLosesOcrError(t, kind) ==
    IF server2_alive /\ kind /= "ErrOcr"
    THEN /\ result_ch' = Append(result_ch, [id |-> tasks[t].id,
                                            result |-> Result(kind, tasks[t].img)])
         /\ tasks' = [tasks EXCEPT ![t].pc = "done", ![t].worker = 0, ![t].out = kind]
    ELSE /\ result_ch' = result_ch
         /\ tasks' = [tasks EXCEPT ![t].pc = "panicked", ![t].worker = 0]

\* result_tx_clone2.send((id, r)).unwrap(); return;
\* the send fails, and the unwrap panics, once OcrServer2 has dropped result_rx
SendAndReturn(t, kind) ==
    IF server2_alive
    THEN /\ result_ch' = Append(result_ch, [id |-> tasks[t].id,
                                            result |-> Result(kind, tasks[t].img)])
         /\ tasks' = [tasks EXCEPT ![t].pc = "done", ![t].worker = 0, ![t].out = kind]
    ELSE /\ result_ch' = result_ch
         /\ tasks' = [tasks EXCEPT ![t].pc = "panicked", ![t].worker = 0]

\* the id OcrClient::send puts in the message
SendId == last_id

\* a bug: the increment is forgotten
NextLastIdStuck == last_id

\* self.last_id += 1
NextLastId == last_id + 1

\* the number of requests sent and not yet answered
InFlight == Cardinality({r \in 1..Len(sent) : rx[r] = <<>>})

\* OcrClient::send
ClientSend ==
    /\ Len(sent) < MaxRequests
    /\ server2_alive
    /\ id_img_result_channel' = Append(id_img_result_channel,
            [id |-> SendId, img |-> Len(sent) + 1, tx |-> Len(sent) + 1])
    /\ sent' = Append(sent, SendId)
    /\ last_id' = NextLastId
    /\ peak_in_flight' = Max(peak_in_flight, InFlight + 1)
    /\ UNCHANGED <<id_result_txs, id_img, tasks, ocr_processors, workers_created,
                   result_ch, rx, ocr_calls, server2_alive>>
    /\ UNCHANGED pool_lock
    /\ UNCHANGED non_ocr_vars

\* a bug: the pair is forwarded to the work queue and no slot is inserted
Server2AcceptWithoutSlot ==
    /\ server2_alive
    /\ id_img_result_channel /= <<>>
    /\ LET m == Head(id_img_result_channel)
       IN  id_img' = Append(id_img, [id |-> m.id, img |-> m.img])
    /\ id_img_result_channel' = Tail(id_img_result_channel)
    /\ UNCHANGED <<last_id, sent, tasks, ocr_processors, workers_created, result_ch,
                   rx, ocr_calls, server2_alive, id_result_txs>>
    /\ UNCHANGED <<pool_lock, peak_in_flight>>
    /\ UNCHANGED non_ocr_vars

\* OcrServer2::run, first select! branch
Server2Accept ==
    /\ server2_alive
    /\ id_img_result_channel /= <<>>
    /\ LET m == Head(id_img_result_channel)
       IN  /\ id_result_txs' = [i \in DOMAIN id_result_txs \cup {m.id} |->
                                    IF i = m.id THEN m.tx ELSE id_result_txs[i]]
           /\ id_img' = Append(id_img, [id |-> m.id, img |-> m.img])
    /\ id_img_result_channel' = Tail(id_img_result_channel)
    /\ UNCHANGED <<last_id, sent, tasks, ocr_processors, workers_created, result_ch,
                   rx, ocr_calls, server2_alive>>
    /\ UNCHANGED <<pool_lock, peak_in_flight>>
    /\ UNCHANGED non_ocr_vars

\* a bug: the correlator answers on the oldest pending slot, whatever the id
SlotForOldest(id) ==
    id_result_txs[CHOOSE i \in DOMAIN id_result_txs : \A j \in DOMAIN id_result_txs : i <= j]

\* the oneshot sender the correlator answers a result for `id` on
SlotFor(id) == id_result_txs[id]

\* OcrServer2::run, second select! branch
Server2Result ==
    /\ server2_alive
    /\ result_ch /= <<>>
    /\ LET m == Head(result_ch)
       IN  IF m.id \in DOMAIN id_result_txs
           THEN IF SlotFor(m.id) \in rx_dropped
                THEN \* result_tx.send(result).unwrap() panics: the receiver is gone
                     /\ server2_alive' = FALSE
                     /\ id_result_txs' = [i \in DOMAIN id_result_txs \ {m.id} |->
                                              id_result_txs[i]]
                     /\ UNCHANGED rx
                ELSE /\ rx' = [rx EXCEPT ![SlotFor(m.id)] = Append(@, m.result)]
                     /\ id_result_txs' = [i \in DOMAIN id_result_txs \ {m.id} |->
                                              id_result_txs[i]]
                     /\ UNCHANGED server2_alive
           ELSE \* self.id_result_txs.remove(&id).unwrap() panics
                /\ server2_alive' = FALSE
                /\ UNCHANGED <<rx, id_result_txs>>
    /\ result_ch' = Tail(result_ch)
    /\ UNCHANGED <<last_id, sent, id_img_result_channel, id_img, tasks, ocr_processors,
                   workers_created, ocr_calls>>
    /\ UNCHANGED <<pool_lock, peak_in_flight>>
    /\ UNCHANGED non_ocr_vars

\* OcrServer1::run: receive one (id, img) and spawn its task
Server1Dispatch ==
    /\ id_img /= <<>>
    /\ tasks' = Append(tasks, NewTask(Head(id_img).id, Head(id_img).img))
    /\ id_img' = Tail(id_img)
    /\ UNCHANGED <<last_id, sent, id_img_result_channel, id_result_txs, ocr_processors,
                   workers_created, result_ch, rx, ocr_calls, server2_alive>>
    /\ UNCHANGED <<pool_lock, peak_in_flight>>
    /\ UNCHANGED non_ocr_vars

\* image_to_base64(&img)
TaskEncode(t) ==
    /\ t <= Len(tasks)
    /\ tasks[t].pc = "encode"
    /\ \/ /\ tasks' = [tasks EXCEPT ![t].pc = "check"]
          /\ UNCHANGED result_ch
       \/ SendAndReturn(t, "ErrBase64")
    /\ UNCHANGED <<last_id, sent, id_img_result_channel, id_result_txs, id_img,
                   ocr_processors, workers_created, rx, ocr_calls, server2_alive>>
    /\ UNCHANGED <<pool_lock, peak_in_flight>>
    /\ UNCHANGED non_ocr_vars

\* a bug: a worker is started for every request, whatever the pool holds
TaskCheckAlwaysCreates(t) ==
    /\ t <= Len(tasks)
    /\ tasks[t].pc = "check"
    /\ pool_lock = 0
    /\ tasks' = [tasks EXCEPT ![t].pc = "create"]
    /\ UNCHANGED <<last_id, sent, id_img_result_channel, id_result_txs, id_img,
                   ocr_processors, workers_created, result_ch, rx, ocr_calls,
                   server2_alive>>
    /\ UNCHANGED <<pool_lock, peak_in_flight>>
    /\ UNCHANGED non_ocr_vars

\* if ocr_processors_clone2.lock().unwrap().is_empty()
TaskCheck(t) ==
    /\ t <= Len(tasks)
    /\ tasks[t].pc = "check"
    /\ pool_lock = 0
    /\ tasks' = [tasks EXCEPT ![t].pc = IF ocr_processors = <<>> THEN "create" ELSE "pop"]
    /\ UNCHANGED <<last_id, sent, id_img_result_channel, id_result_txs, id_img,
                   ocr_processors, workers_created, result_ch, rx, ocr_calls,
                   server2_alive>>
    /\ UNCHANGED <<pool_lock, peak_in_flight>>
    /\ UNCHANGED non_ocr_vars

\* Ppocr::new(..)
TaskCreate(t) ==
    /\ t <= Len(tasks)
    /\ tasks[t].pc = "create"
    /\ \/ /\ tasks' = [tasks EXCEPT ![t].pc = "ocr", ![t].worker = workers_created + 1]
          /\ workers_created' = workers_created + 1
          /\ UNCHANGED result_ch
       \/ /\ SendAndReturn(t, "ErrCreate")
          /\ UNCHANGED workers_created
    /\ UNCHANGED <<last_id, sent, id_img_result_channel, id_result_txs, id_img,
                   ocr_processors, rx, ocr_calls, server2_alive>>
    /\ UNCHANGED <<pool_lock, peak_in_flight>>
    /\ UNCHANGED non_ocr_vars

\* a bug: the worker is cloned out of the pool instead of popped
TaskPopLeavesInPool(t) ==
    /\ t <= Len(tasks)
    /\ tasks[t].pc = "pop"
    /\ pool_lock = 0
    /\ IF ocr_processors /= <<>>
       THEN /\ tasks' = [tasks EXCEPT ![t].pc = "popped",
                                      ![t].worker = ocr_processors[Len(ocr_processors)]]
            /\ pool_lock' = t
            /\ UNCHANGED result_ch
       ELSE /\ SendAndReturn(t, "ErrPop")
            /\ UNCHANGED pool_lock
    /\ UNCHANGED <<last_id, sent, id_img_result_channel, id_result_txs, id_img,
                   ocr_processors, workers_created, rx, ocr_calls, server2_alive,
                   peak_in_flight>>
    /\ UNCHANGED non_ocr_vars

\* a bug: the guard taken for the pop is kept while the backend call runs
TaskPopEndKeepsLock(t) ==
    /\ t <= Len(tasks)
    /\ tasks[t].pc = "popped"
    /\ tasks' = [tasks EXCEPT ![t].pc = "ocr"]
    /\ UNCHANGED <<last_id, sent, id_img_result_channel, id_result_txs, id_img,
                   ocr_processors, workers_created, result_ch, rx, ocr_calls,
                   server2_alive, pool_lock, peak_in_flight>>
    /\ UNCHANGED non_ocr_vars

\* match ocr_processors_clone2.lock().unwrap().pop(): the guard is a temporary of
\* the let statement, so the None arm sends and returns under the lock and the Some
\* arm keeps the lock until the statement ends
TaskPop(t) ==
    /\ t <= Len(tasks)
    /\ tasks[t].pc = "pop"
    /\ pool_lock = 0
    /\ IF ocr_processors /= <<>>
       THEN /\ tasks' = [tasks EXCEPT ![t].pc = "popped",
                                      ![t].worker = ocr_processors[Len(ocr_processors)]]
            /\ ocr_processors' = SubSeq(ocr_processors, 1, Len(ocr_processors) - 1)
            /\ pool_lock' = t
            /\ UNCHANGED result_ch
       ELSE /\ SendAndReturn(t, "ErrPop")
            /\ UNCHANGED <<ocr_processors, pool_lock>>
    /\ UNCHANGED <<last_id, sent, id_img_result_channel, id_result_txs, id_img,
                   workers_created, rx, ocr_calls, server2_alive, peak_in_flight>>
    /\ UNCHANGED non_ocr_vars

\* the end of `let mut ocr_processor = ..;`: the guard is dropped
TaskPopEnd(t) ==
    /\ t <= Len(tasks)
    /\ tasks[t].pc = "popped"
    /\ pool_lock' = 0
    /\ tasks' = [tasks EXCEPT ![t].pc = "ocr"]
    /\ UNCHANGED <<last_id, sent, id_img_result_channel, id_result_txs, id_img,
                   ocr_processors, workers_created, result_ch, rx, ocr_calls,
                   server2_alive, peak_in_flight>>
    /\ UNCHANGED non_ocr_vars

\* a bug: a failed backend call is retried instead of reported
TaskOcrRetry(t) ==
    /\ t <= Len(tasks)
    /\ tasks[t].pc = "ocr"
    /\ ocr_calls[tasks[t].img] < 2
    /\ ocr_calls' = [ocr_calls EXCEPT ![tasks[t].img] = @ + 1]
    /\ \/ tasks' = [tasks EXCEPT ![t].pc = "push"]
       \/ UNCHANGED tasks
    /\ UNCHANGED <<last_id, sent, id_img_result_channel, id_result_txs, id_img,
                   ocr_processors, workers_created, result_ch, rx, server2_alive>>
    /\ UNCHANGED <<pool_lock, peak_in_flight>>
    /\ UNCHANGED non_ocr_vars

\* ocr_processor.ocr(..): Ok(result_json), or Err and the processor is dropped
TaskOcr(t) ==
    /\ t <= Len(tasks)
    /\ tasks[t].pc = "ocr"
    /\ ocr_calls' = [ocr_calls EXCEPT ![tasks[t].img] = @ + 1]
    /\ \/ /\ tasks' = [tasks EXCEPT ![t].pc = "push"]
          /\ UNCHANGED result_ch
       \/ SendAndReturn(t, "ErrOcr")
    /\ UNCHANGED <<last_id, sent, id_img_result_channel, id_result_txs, id_img,
                   ocr_processors, workers_created, rx, server2_alive>>
    /\ UNCHANGED <<pool_lock, peak_in_flight>>
    /\ UNCHANGED non_ocr_vars

\* a bug: the worker is dropped after a successful call instead of checked in
TaskPushDrops(t) ==
    /\ t <= Len(tasks)
    /\ tasks[t].pc = "push"
    /\ pool_lock = 0
    /\ tasks' = [tasks EXCEPT ![t].pc = "parse", ![t].worker = 0]
    /\ UNCHANGED <<last_id, sent, id_img_result_channel, id_result_txs, id_img,
                   ocr_processors, workers_created, result_ch, rx, ocr_calls,
                   server2_alive, pool_lock, peak_in_flight>>
    /\ UNCHANGED non_ocr_vars

\* ocr_processors_clone2.lock().unwrap().push(ocr_processor)
TaskPush(t) ==
    /\ t <= Len(tasks)
    /\ tasks[t].pc = "push"
    /\ pool_lock = 0
    /\ ocr_processors' = Append(ocr_processors, tasks[t].worker)
    /\ tasks' = [tasks EXCEPT ![t].pc = "parse", ![t].worker = 0]
    /\ UNCHANGED <<last_id, sent, id_img_result_channel, id_result_txs, id_img,
                   workers_created, result_ch, rx, ocr_calls, server2_alive>>
    /\ UNCHANGED <<pool_lock, peak_in_flight>>
    /\ UNCHANGED non_ocr_vars

\* serde_json::from_str .. item1["text"].as_str(), and the send of the outcome.
\* Nothing reads result_json before this point, so its content is drawn here.
TaskParse(t) ==
    /\ t <= Len(tasks)
    /\ tasks[t].pc = "parse"
    /\ \E json \in Jsons : SendAndReturn(t, ParseKind(json))
    /\ UNCHANGED <<last_id, sent, id_img_result_channel, id_result_txs, id_img,
                   ocr_processors, workers_created, rx, ocr_calls, server2_alive>>
    /\ UNCHANGED <<pool_lock, peak_in_flight>>
    /\ UNCHANGED non_ocr_vars

\* one step of the t-th spawned task
TaskRun(t) ==
    \/ TaskEncode(t)
    \/ TaskCheck(t)
    \/ TaskCreate(t)
    \/ TaskPop(t)
    \/ TaskPopEnd(t)
    \/ TaskOcr(t)
    \/ TaskPush(t)
    \/ TaskParse(t)

\* run_server, and OcrClient { last_id: 0 }
OcrInit ==
    /\ last_id = 0
    /\ sent = <<>>
    /\ id_img_result_channel = <<>>
    /\ id_result_txs = <<>>
    /\ id_img = <<>>
    /\ tasks = <<>>
    /\ ocr_processors = <<>>
    /\ workers_created = 0
    /\ result_ch = <<>>
    /\ rx = [r \in Requests |-> <<>>]
    /\ ocr_calls = [r \in Requests |-> 0]
    /\ server2_alive = TRUE
    /\ pool_lock = 0
    /\ peak_in_flight = 0
    /\ rx_dropped = {}

MergeIdle ==
    /\ new_records = <<>>
    /\ old_records = <<>>
    /\ merge_result = NoResult
    /\ main_pc = "exit"
    /\ files = [f \in FileNames |-> NoFile]
    /\ writes = <<>>

\* no pagination run
PageIdle ==
    /\ page_pc = "done"
    /\ record_screens = <<>>
    /\ click_time = 0
    /\ page_img = NoImg
    /\ elapsed = 0
    /\ next_clicks = 0
    /\ error = "none"
    /\ total_pages = 1
    /\ ui_shown = 0
    /\ ui_target = 0
    /\ window = "1920x1080"

\* no page being classified
ClassIdle ==
    /\ class_pc = "done"
    /\ page = [index_ok |-> FALSE, rows |-> <<>>]
    /\ screen_result = NotCalled
    /\ image_result = NotCalled
    /\ image_verdict = NotCalled

\* a thread that is in no capture.rs call
IdleCaller == [pc |-> "idle", holds |-> FALSE, result |-> "none", crashed_on_held |-> FALSE]

\* after init_capture: the slot holds the started handle, nobody is calling
CaptureIdle ==
    /\ CLIENT_CAPTURE = "some"
    /\ capture_poisoned = FALSE
    /\ capture_stopped = FALSE
    /\ callers = [c \in Callers |-> IdleCaller]
    /\ calls_made = 0

\* a row task that has not been spawned
IdleRow == [pc |-> "unspawned", field |-> 0]

\* before main classifies the accepted pages
ScanIdle ==
    /\ scan_pc = "idle"
    /\ page_tasks = [p \in 1..ScanPages |-> "unspawned"]
    /\ row_tasks = [id \in RowIds |-> IdleRow]
    /\ field_sent = {}
    /\ in_flight = {}
    /\ completed = <<>>
    /\ page_results = [p \in 1..ScanPages |-> <<>>]
    /\ scanned = <<>>

Init == OcrInit /\ MergeIdle /\ PageIdle /\ ClassIdle /\ CaptureIdle /\ ScanIdle

Next ==
    \/ ClientSend
    \/ Server2Accept
    \/ Server2Result
    \/ Server1Dispatch
    \/ \E t \in Requests : TaskEncode(t)
    \/ \E t \in Requests : TaskCheck(t)
    \/ \E t \in Requests : TaskCreate(t)
    \/ \E t \in Requests : TaskPop(t)
    \/ \E t \in Requests : TaskPopEnd(t)
    \/ \E t \in Requests : TaskOcr(t)
    \/ \E t \in Requests : TaskPush(t)
    \/ \E t \in Requests : TaskParse(t)

Spec == Init /\ [][Next]_vars

\* Fair scheduling: the runtime keeps polling the two server loops, select! takes
\* every branch that stays ready, every spawned task is run to its end, and every
\* backend call returns.
LiveSpec ==
    /\ Spec
    /\ WF_vars(Server2Accept)
    /\ WF_vars(Server2Result)
    /\ WF_vars(Server1Dispatch)
    /\ \A t \in Requests : WF_vars(TaskRun(t))

(***************************************************************************)
(* The engine with callers that may give up: a caller drops the oneshot    *)
(* receiver that OcrClient::send returned before the result has arrived.   *)
(***************************************************************************)
\* the caller of request r drops its receiver
ClientDrop(r) ==
    /\ r <= Len(sent)
    /\ rx[r] = <<>>
    /\ r \notin rx_dropped
    /\ rx_dropped' = rx_dropped \cup {r}
    /\ UNCHANGED <<ocr_vars, merge_vars, page_vars, class_vars, capture_vars, scan_vars>>

DropNext ==
    \/ ClientSend
    \/ \E r \in Requests : ClientDrop(r)
    \/ Server2Accept
    \/ Server2Result
    \/ Server1Dispatch
    \/ \E t \in Requests : TaskEncode(t)
    \/ \E t \in Requests : TaskCheck(t)
    \/ \E t \in Requests : TaskCreate(t)
    \/ \E t \in Requests : TaskPop(t)
    \/ \E t \in Requests : TaskPopEnd(t)
    \/ \E t \in Requests : TaskOcr(t)
    \/ \E t \in Requests : TaskPush(t)
    \/ \E t \in Requests : TaskParse(t)

DropSpec == Init /\ [][DropNext]_vars

(***************************************************************************)
(* The reconciler applied to every pair of inputs within the bounds.       *)
(***************************************************************************)
\* main after the scan: gacha_records is this run's scanned sequence and
\* old_gacha_records is what was read from gacha_records/{file_name}.csv
MergeInit ==
    /\ OcrInit
    /\ \E n \in 0..MaxRecords : \E m \in 0..(MaxRecords - n) :
          /\ new_records \in [1..n -> GachaRecord]
          /\ old_records \in [1..m -> GachaRecord]
    /\ merge_result = NoResult
    /\ main_pc = "merge"
    /\ files = [f \in FileNames |-> IF f = "store" THEN old_records ELSE NoFile]
    /\ writes = <<>>
    /\ PageIdle
    /\ ClassIdle
    /\ CaptureIdle
    /\ ScanIdle

\* main: match merge_gacha_records(&gacha_records, &old_gacha_records)
Merge ==
    /\ main_pc = "merge"
    /\ ~merge_result.called
    /\ merge_result' = merge_gacha_records(new_records, old_records)
    /\ main_pc' = IF merge_result'.ok THEN "save" ELSE "log_old"
    /\ UNCHANGED <<new_records, old_records, files, writes>>
    /\ UNCHANGED non_merge_vars

\* csv::Writer::from_path(path), serialize every record, flush
WriteFile(name, records, next_pc) ==
    /\ files' = [files EXCEPT ![name] = records]
    /\ writes' = Append(writes, name)
    /\ main_pc' = next_pc
    /\ UNCHANGED <<new_records, old_records, merge_result>>
    /\ UNCHANGED non_merge_vars

\* Err arm: the old records go to log/{now}_{file_name}_old.csv
SaveOldToLog ==
    /\ main_pc = "log_old"
    /\ WriteFile("log_old", old_records, "log_this_time")

\* a bug: the scanned records replace the stored ones
SaveThisTimeOverStore ==
    /\ main_pc = "log_this_time"
    /\ WriteFile("store", new_records, "exit")

\* Err arm: this run's records go to log/{now}_{file_name}_this_time.csv, then return
SaveThisTimeToLog ==
    /\ main_pc = "log_this_time"
    /\ WriteFile("log_this_time", new_records, "exit")

\* Ok arm: the merged records go to gacha_records/{file_name}.csv
SaveMerged ==
    /\ main_pc = "save"
    /\ WriteFile("store", merge_result.records, "save_copy")

\* and to gacha_records/{file_name}_{timestamp}.csv
SaveMergedCopy ==
    /\ main_pc = "save_copy"
    /\ WriteFile("store_copy", merge_result.records, "exit")

MergeNext ==
    \/ Merge
    \/ SaveOldToLog
    \/ SaveThisTimeToLog
    \/ SaveMerged
    \/ SaveMergedCopy

MergeSpec == MergeInit /\ [][MergeNext]_vars

(***************************************************************************)
(* The pagination run of main (src/src/main.rs, lines 178-242).            *)
(*                                                                         *)
(* The game is the environment: it shows page ui_shown of a listing of      *)
(* total_pages pages (0: some other screen), a click on a page button sets  *)
(* the page it will show, and it re-renders after a delay of its own.      *)
(***************************************************************************)
\* client areas: 1920x1080, a smaller 16:9 one, and one that is not 16:9
Windows == {"1920x1080", "1280x720", "1024x768"}

\* client_capture.get_img(): the frame as the window shows it
get_img ==
    [page |-> ui_shown, ratio169 |-> window /= "1024x768",
     canonical |-> window = "1920x1080", grabbed |-> TRUE]

\* client_img: Err unless the frame is 16:9; resize_exact to 1920x1080
client_img(frame) ==
    IF ~frame.ratio169 THEN NoImg ELSE [frame EXCEPT !.canonical = TRUE]

\* RecordScreen::index().await: Ok(n) or Err.  ocr_ok: the OCR engine returned a
\* text; garbled: what a crop at the 1920x1080 coordinates decodes to on a frame of
\* another size
index(frame, ocr_ok, garbled) ==
    IF ~ocr_ok \/ frame.page = 0 THEN Err
    ELSE IF frame.canonical THEN frame.page
    ELSE garbled

RecordScreen(frame, idx) == [img |-> frame, index |-> idx]

\* a bug: whatever index is decoded, the capture is accepted
is_next_screen_any(idx) == idx /= Err

\* a bug: a page further ahead is accepted too
is_next_screen_or_ahead(idx) == idx > Len(record_screens)

\* if index == record_screens.len() as u32 + 1
is_next_screen(idx) == idx = Len(record_screens) + 1

\* a bug: the poll loop has no timeout
poll_timed_out_never == FALSE

\* if start.elapsed().as_secs_f32() > 1.0
poll_timed_out == elapsed > PollTimeout

\* click_to_change_page(hwnd, next_page): the game turns the page if there is one
click_to_change_page(next_page) ==
    IF ui_target = 0 THEN 0
    ELSE IF next_page THEN (IF ui_target < total_pages THEN ui_target + 1 ELSE ui_target)
    ELSE (IF ui_target > 1 THEN ui_target - 1 ELSE ui_target)

\* .unwrap() on an Err: main panics, the process ends and main's locals are dropped;
\* record_screens keeps what had been accepted when that happened
Panic ==
    /\ page_pc' = "panicked"
    /\ error' = "panic"
    /\ page_img' = NoImg
    /\ UNCHANGED record_screens

\* wait_any_key(); return after a log::error!
Return(description) ==
    /\ page_pc' = "failed"
    /\ error' = description
    /\ page_img' = NoImg
    /\ UNCHANGED record_screens

\* Locating: let img = client_img(&mut client_capture).unwrap()
LocCapture ==
    /\ page_pc = "loc_capture"
    /\ \E grab_ok \in BOOLEAN :
          LET frame == IF grab_ok THEN client_img(get_img) ELSE NoImg
          IN  IF frame.grabbed
              THEN /\ page_img' = frame
                   /\ page_pc' = "loc_index"
                   /\ UNCHANGED <<record_screens, error>>
              ELSE Panic
    /\ UNCHANGED <<click_time, elapsed, next_clicks, total_pages, ui_shown, ui_target, window>>
    /\ UNCHANGED non_page_vars

\* a bug: an index that cannot be decoded sends Locating into Rewinding
LocIndexRewindsOnErr ==
    /\ page_pc = "loc_index"
    /\ \E ocr_ok \in BOOLEAN : \E garbled \in 0..MaxPages :
          LET idx == index(page_img, ocr_ok, garbled)
          IN  IF idx = 1
              THEN /\ record_screens' = Append(record_screens, RecordScreen(page_img, idx))
                   /\ page_pc' = "adv_click"
                   /\ page_img' = NoImg
                   /\ UNCHANGED error
              ELSE /\ page_pc' = "rew_click"
                   /\ page_img' = NoImg
                   /\ UNCHANGED <<record_screens, error>>
    /\ UNCHANGED <<click_time, elapsed, next_clicks, total_pages, ui_shown, ui_target, window>>
    /\ UNCHANGED non_page_vars

\* Locating: match record_screen.index().await
LocIndex ==
    /\ page_pc = "loc_index"
    /\ \E ocr_ok \in BOOLEAN : \E garbled \in 0..MaxPages :
          LET idx == index(page_img, ocr_ok, garbled)
          IN  IF idx = Err
              THEN Return("Failed to get index")
              ELSE IF idx = 1
              THEN /\ record_screens' = Append(record_screens, RecordScreen(page_img, idx))
                   /\ page_pc' = "adv_click"
                   /\ page_img' = NoImg
                   /\ UNCHANGED error
              ELSE /\ page_pc' = "rew_click"
                   /\ page_img' = NoImg
                   /\ UNCHANGED <<record_screens, error>>
    /\ UNCHANGED <<click_time, elapsed, next_clicks, total_pages, ui_shown, ui_target, window>>
    /\ UNCHANGED non_page_vars

\* Rewinding: click_to_change_page(hwnd, false)
RewClick ==
    /\ page_pc = "rew_click"
    /\ ui_target' = click_to_change_page(FALSE)
    /\ page_pc' = "rew_sleep"
    /\ UNCHANGED <<record_screens, click_time, page_img, elapsed, next_clicks, error,
                   total_pages, ui_shown, window>>
    /\ UNCHANGED non_page_vars

\* Rewinding: sleep(200 ms).await; click_time += 1
RewSleep ==
    /\ page_pc = "rew_sleep"
    /\ click_time' = click_time + 1
    /\ page_pc' = "rew_capture"
    /\ UNCHANGED <<record_screens, page_img, elapsed, next_clicks, error,
                   total_pages, ui_shown, ui_target, window>>
    /\ UNCHANGED non_page_vars

\* Rewinding: let img = client_capture.get_img().unwrap()
RewCapture ==
    /\ page_pc = "rew_capture"
    /\ \E grab_ok \in BOOLEAN :
          IF grab_ok
          THEN /\ page_img' = get_img
               /\ page_pc' = "rew_index"
               /\ UNCHANGED <<record_screens, error>>
          ELSE Panic
    /\ UNCHANGED <<click_time, elapsed, next_clicks, total_pages, ui_shown, ui_target, window>>
    /\ UNCHANGED non_page_vars

\* Rewinding: let index = record_screen.index().await.unwrap(), and the two ifs
RewIndex ==
    /\ page_pc = "rew_index"
    /\ \E ocr_ok \in BOOLEAN : \E garbled \in 0..MaxPages :
          LET idx == index(page_img, ocr_ok, garbled)
          IN  IF idx = Err
              THEN Panic
              ELSE IF idx = 1
              THEN /\ record_screens' = Append(record_screens, RecordScreen(page_img, idx))
                   /\ page_pc' = "adv_click"
                   /\ page_img' = NoImg
                   /\ UNCHANGED error
              ELSE IF click_time > MaxRewindClicks
              THEN Return("Failed to back to the first screen")
              ELSE /\ page_pc' = "rew_click"
                   /\ page_img' = NoImg
                   /\ UNCHANGED <<record_screens, error>>
    /\ UNCHANGED <<click_time, elapsed, next_clicks, total_pages, ui_shown, ui_target, window>>
    /\ UNCHANGED non_page_vars

\* a bug: the capture follows the click without the settle delay
AdvClickSkipsSettle ==
    /\ page_pc = "adv_click"
    /\ ui_target' = click_to_change_page(TRUE)
    /\ next_clicks' = next_clicks + 1
    /\ elapsed' = 0
    /\ page_pc' = "adv_capture"
    /\ UNCHANGED <<record_screens, click_time, page_img, error,
                   total_pages, ui_shown, window>>
    /\ UNCHANGED non_page_vars

\* Advancing: click_to_change_page(hwnd, true)
AdvClick ==
    /\ page_pc = "adv_click"
    /\ ui_target' = click_to_change_page(TRUE)
    /\ next_clicks' = next_clicks + 1
    /\ page_pc' = "adv_sleep"
    /\ UNCHANGED <<record_screens, click_time, page_img, elapsed, error,
                   total_pages, ui_shown, window>>
    /\ UNCHANGED non_page_vars

\* Advancing: sleep(200 ms).await; let start = Instant::now()
AdvSleep ==
    /\ page_pc = "adv_sleep"
    /\ elapsed' = 0
    /\ page_pc' = "adv_capture"
    /\ UNCHANGED <<record_screens, click_time, page_img, next_clicks, error,
                   total_pages, ui_shown, ui_target, window>>
    /\ UNCHANGED non_page_vars

\* Advancing: let img = client_img(&mut client_capture).unwrap()
AdvCapture ==
    /\ page_pc = "adv_capture"
    /\ \E grab_ok \in BOOLEAN :
          LET frame == IF grab_ok THEN client_img(get_img) ELSE NoImg
          IN  IF frame.grabbed
              THEN /\ page_img' = frame
                   /\ page_pc' = "adv_index"
                   /\ UNCHANGED <<record_screens, error>>
              ELSE Panic
    /\ UNCHANGED <<click_time, elapsed, next_clicks, total_pages, ui_shown, ui_target, window>>
    /\ UNCHANGED non_page_vars

\* Advancing: let index = record_screen.index().await.unwrap(), and the two ifs
AdvIndex ==
    /\ page_pc = "adv_index"
    /\ \E ocr_ok \in BOOLEAN : \E garbled \in 0..MaxPages :
          LET idx == index(page_img, ocr_ok, garbled)
          IN  IF idx = Err
              THEN Panic
              ELSE IF is_next_screen(idx)
              THEN /\ record_screens' = Append(record_screens, RecordScreen(page_img, idx))
                   /\ page_pc' = "adv_click"
                   /\ page_img' = NoImg
                   /\ UNCHANGED error
              ELSE IF poll_timed_out
              THEN /\ page_pc' = "done"
                   /\ page_img' = NoImg
                   /\ UNCHANGED <<record_screens, error>>
              ELSE /\ page_pc' = "adv_capture"
                   /\ page_img' = NoImg
                   /\ UNCHANGED <<record_screens, error>>
    /\ UNCHANGED <<click_time, elapsed, next_clicks, total_pages, ui_shown, ui_target, window>>
    /\ UNCHANGED non_page_vars

\* time passes while the poll loop of Advancing runs
Tick ==
    /\ page_pc \in {"adv_capture", "adv_index"}
    /\ elapsed <= PollTimeout
    /\ elapsed' = elapsed + 1
    /\ UNCHANGED <<page_pc, record_screens, click_time, page_img, next_clicks, error,
                   total_pages, ui_shown, ui_target, window>>
    /\ UNCHANGED non_page_vars

\* the game re-renders: it shows the page the clicks asked for
UiRender ==
    /\ page_pc \notin {"done", "failed", "panicked"}
    /\ ui_shown /= ui_target
    /\ ui_shown' = ui_target
    /\ UNCHANGED <<page_pc, record_screens, click_time, page_img, elapsed, next_clicks, error,
                   total_pages, ui_target, window>>
    /\ UNCHANGED non_page_vars

\* one step of main
PageStep ==
    \/ LocCapture
    \/ LocIndex
    \/ RewClick
    \/ RewSleep
    \/ RewCapture
    \/ RewIndex
    \/ AdvClick
    \/ AdvSleep
    \/ AdvCapture
    \/ AdvIndex

\* main line 178: record_screens = vec![], the game on any screen
PageInit ==
    /\ OcrInit
    /\ MergeIdle
    /\ ClassIdle
    /\ CaptureIdle
    /\ ScanIdle
    /\ page_pc = "loc_capture"
    /\ record_screens = <<>>
    /\ click_time = 0
    /\ page_img = NoImg
    /\ elapsed = 0
    /\ next_clicks = 0
    /\ error = "none"
    /\ total_pages \in 1..MaxPages
    /\ ui_shown \in 0..total_pages
    /\ ui_target = ui_shown
    /\ window \in Windows

PageNext ==
    \/ LocCapture
    \/ LocIndex
    \/ RewClick
    \/ RewSleep
    \/ RewCapture
    \/ RewIndex
    \/ AdvClick
    \/ AdvSleep
    \/ AdvCapture
    \/ AdvIndex
    \/ Tick
    \/ UiRender

PageSpec == PageInit /\ [][PageNext]_vars

\* main keeps running, the clock keeps advancing
PageLiveSpec ==
    /\ PageSpec
    /\ WF_vars(PageStep)
    /\ WF_vars(Tick)

(***************************************************************************)
(* The page classifiers: RecordScreen::gacha_records of src/src/record.rs  *)
(* (rows decoded through the OCR engine) and RecordImage of               *)
(* src/src/record_image.rs (rows decoded in place).                        *)
(*                                                                         *)
(* A page image is its row positions, each with the colour of its star     *)
(* pixel and with what goes wrong when its fields are decoded, and whether *)
(* its page index can be decoded.                                          *)
(***************************************************************************)
STAR_3_RGB == <<55, 98, 242>>
STAR_4_RGB == <<192, 105, 214>>
STAR_5_RGB == <<233, 155, 55>>

\* star pixel colours: the three references, one within the tolerance of the first,
\* one at exactly the tolerance from the third, and a background colour
Colors == {STAR_3_RGB, STAR_4_RGB, STAR_5_RGB, <<55, 98, 240>>, <<233, 155, 60>>,
           <<20, 20, 20>>}

\* what goes wrong when the fields of a row are decoded: nothing, the name's OCR
\* fails, the category text is not a known one, the time text does not parse
Faults == {"none", "name_ocr", "type_unknown", "time_unparsable"}

RowImage == [color : Colors, fault : Faults]

\* rgb_distance squared (the code compares the square root with ACCURACY)
rgb_distance_sq(rgb1, rgb2) ==
    (rgb1[1] - rgb2[1]) * (rgb1[1] - rgb2[1])
    + (rgb1[2] - rgb2[2]) * (rgb1[2] - rgb2[2])
    + (rgb1[3] - rgb2[3]) * (rgb1[3] - rgb2[3])

\* RecordImage::stars::rgb_to_star: Ok(star) or Err
rgb_to_star(rgb) ==
    IF rgb_distance_sq(rgb, STAR_3_RGB) < ACCURACY * ACCURACY THEN 3
    ELSE IF rgb_distance_sq(rgb, STAR_4_RGB) < ACCURACY * ACCURACY THEN 4
    ELSE IF rgb_distance_sq(rgb, STAR_5_RGB) < ACCURACY * ACCURACY THEN 5
    ELSE Err

\* OneRecordImage::star: Ok(star) or Err, by equality with a reference colour
OneRecordImage_star(rgb) ==
    IF rgb = STAR_3_RGB THEN 3
    ELSE IF rgb = STAR_4_RGB THEN 4
    ELSE IF rgb = STAR_5_RGB THEN 5
    ELSE Err

\* a decoded row: its position on the page, its star tier, its name as decoded
OneRecord(i, star, item_name) == [row |-> i, star |-> star, item_name |-> item_name]

\* the first position of results that satisfies no Ok test, or Len + 1
FirstFailure(oks) ==
    IF \A i \in 1..Len(oks) : oks[i] THEN Len(oks) + 1
    ELSE CHOOSE i \in 1..Len(oks) : ~oks[i] /\ \A j \in 1..(i - 1) : oks[j]

\* OneRecordImage::gacha_record: star()?, item_name().await?, item_type().await?,
\* timestamp().await?
OneRecordImage_gacha_record(rows, i) ==
    IF OneRecordImage_star(rows[i].color) = Err THEN [ok |-> FALSE]
    ELSE IF rows[i].fault /= "none" THEN [ok |-> FALSE]
    ELSE [ok |-> TRUE, record |-> OneRecord(i, OneRecordImage_star(rows[i].color), "name")]

\* a bug: without the take_while, collect stops at the first Err and returns it
RecordScreen_gacha_records_returns_err(rows) ==
    LET results == [i \in 1..Len(rows) |-> OneRecordImage_gacha_record(rows, i)]
        n == FirstFailure([i \in 1..Len(rows) |-> results[i].ok])
    IN  IF n <= Len(rows) THEN [kind |-> "err"]
        ELSE [kind |-> "rows", rows |-> [i \in 1..Len(rows) |-> results[i].record]]

\* RecordScreen::gacha_records: one task per row, join_all, then the results in row
\* order up to the first Err, collected into Ok(rows)
RecordScreen_gacha_records(rows) ==
    LET results == [i \in 1..Len(rows) |-> OneRecordImage_gacha_record(rows, i)]
        n == FirstFailure([i \in 1..Len(rows) |-> results[i].ok])
    IN  [kind |-> "rows", rows |-> [i \in 1..(n - 1) |-> results[i].record]]

\* a bug: filter_map instead of map_while, a later matching row is kept
RecordImage_stars_skips(rows) ==
    LET matching == {i \in 1..Len(rows) : rgb_to_star(rows[i].color) /= Err}
        nth(k) == CHOOSE i \in matching : Cardinality({j \in matching : j <= i}) = k
    IN  [k \in 1..Cardinality(matching) |-> [row |-> nth(k), star |-> rgb_to_star(rows[nth(k)].color)]]

\* RecordImage::stars: STAR_YS.iter().map_while(rgb_to_star(..).ok()).collect()
RecordImage_stars(rows) ==
    LET n == FirstFailure([i \in 1..Len(rows) |-> rgb_to_star(rows[i].color) /= Err])
    IN  [i \in 1..(n - 1) |-> [row |-> i, star |-> rgb_to_star(rows[i].color)]]

\* RecordImage::records: for every star, item_name_str(i), item_type(i).unwrap(),
\* timestamp(i).unwrap()
RecordImage_records(rows) ==
    LET stars == RecordImage_stars(rows)
    IN  IF \E k \in 1..Len(stars) :
              rows[stars[k].row].fault \in {"type_unknown", "time_unparsable"}
        THEN [kind |-> "panic"]
        ELSE [kind |-> "rows",
              rows |-> [k \in 1..Len(stars) |->
                          OneRecord(stars[k].row, stars[k].star,
                                    IF rows[stars[k].row].fault = "name_ocr"
                                    THEN "garbled" ELSE "name")]]

\* RecordImage::is_record_image
RecordImage_is_record_image(p) ==
    IF RecordImage_stars(p.rows) = <<>> THEN FALSE
    ELSE IF ~p.index_ok THEN FALSE
    ELSE TRUE

\* a page image handed to the classifiers
ClassInit ==
    /\ OcrInit
    /\ MergeIdle
    /\ PageIdle
    /\ CaptureIdle
    /\ ScanIdle
    /\ class_pc = "gacha_records"
    /\ page \in [index_ok : BOOLEAN, rows : [1..MaxRows -> RowImage]]
    /\ screen_result = NotCalled
    /\ image_result = NotCalled
    /\ image_verdict = NotCalled

\* record_screen.gacha_records().await
ClassifyScreen ==
    /\ class_pc = "gacha_records"
    /\ screen_result' = RecordScreen_gacha_records(page.rows)
    /\ class_pc' = "records"
    /\ UNCHANGED <<page, image_result, image_verdict>>
    /\ UNCHANGED non_class_vars

\* record_image.records()
ClassifyImage ==
    /\ class_pc = "records"
    /\ image_result' = RecordImage_records(page.rows)
    /\ class_pc' = "is_record_image"
    /\ UNCHANGED <<page, screen_result, image_verdict>>
    /\ UNCHANGED non_class_vars

\* record_image.is_record_image()
JudgeImage ==
    /\ class_pc = "is_record_image"
    /\ image_verdict' = [kind |-> "verdict", is_record_image |-> RecordImage_is_record_image(page)]
    /\ class_pc' = "done"
    /\ UNCHANGED <<page, screen_result, image_result>>
    /\ UNCHANGED non_class_vars

ClassNext ==
    \/ ClassifyScreen
    \/ ClassifyImage
    \/ JudgeImage

ClassSpec == ClassInit /\ [][ClassNext]_vars

(***************************************************************************)
(* The shared capture handle (src/src/capture.rs).                         *)
(*                                                                         *)
(* CLIENT_CAPTURE is an Arc<Mutex<Option<ClientCapture>>>.  Every          *)
(* CLIENT_CAPTURE.lock().unwrap() is a statement of its own, so the lock   *)
(* is held for that statement only and the calls of different threads      *)
(* interleave between statements.  A panic while the guard is alive         *)
(* poisons the mutex, and lock().unwrap() panics on a poisoned mutex.      *)
(***************************************************************************)
\* some other thread has taken the handle out of the slot
HeldByOther(c) == \E d \in Callers : d /= c /\ callers[d].holds

\* a thread panics in its call; a handle it holds is dropped with it
Crash(c, on_held) ==
    callers' = [callers EXCEPT ![c].pc = "panicked", ![c].holds = FALSE,
                               ![c].crashed_on_held = on_held]

\* a thread calls capture_image or release_capture
CallStart(c) ==
    /\ callers[c].pc = "idle"
    /\ calls_made < MaxCalls
    /\ calls_made' = calls_made + 1
    /\ \E first \in {"cap_take", "rel_check"} :
          callers' = [callers EXCEPT ![c] = [IdleCaller EXCEPT !.pc = first]]
    /\ UNCHANGED <<CLIENT_CAPTURE, capture_poisoned, capture_stopped>>
    /\ UNCHANGED non_capture_vars

\* capture_image: let mut client_capture = CLIENT_CAPTURE.lock().unwrap().take().unwrap()
CaptureTake(c) ==
    /\ callers[c].pc = "cap_take"
    /\ IF capture_poisoned
       THEN /\ Crash(c, FALSE)
            /\ UNCHANGED <<CLIENT_CAPTURE, capture_poisoned>>
       ELSE IF CLIENT_CAPTURE = "none"
       THEN /\ Crash(c, HeldByOther(c))
            /\ capture_poisoned' = TRUE
            /\ UNCHANGED CLIENT_CAPTURE
       ELSE /\ CLIENT_CAPTURE' = "none"
            /\ callers' = [callers EXCEPT ![c].pc = "cap_grab", ![c].holds = TRUE]
            /\ UNCHANGED capture_poisoned
    /\ UNCHANGED <<capture_stopped, calls_made>>
    /\ UNCHANGED non_capture_vars

\* capture_image: let image_result = client_capture.get_img()
CaptureGrab(c) ==
    /\ callers[c].pc = "cap_grab"
    /\ \E grab \in {"ok", "err_grab", "err_ratio"} :
          callers' = [callers EXCEPT ![c].pc = "cap_put", ![c].result = grab]
    /\ UNCHANGED <<CLIENT_CAPTURE, capture_poisoned, capture_stopped, calls_made>>
    /\ UNCHANGED non_capture_vars

\* a bug: image_result? comes before the replace, a failed grab returns with the
\* handle, which is dropped
CapturePutAfterGrabCheck(c) ==
    /\ callers[c].pc = "cap_put"
    /\ IF callers[c].result = "err_grab"
       THEN /\ callers' = [callers EXCEPT ![c].pc = "idle", ![c].holds = FALSE]
            /\ UNCHANGED CLIENT_CAPTURE
       ELSE IF capture_poisoned
       THEN /\ Crash(c, FALSE)
            /\ UNCHANGED CLIENT_CAPTURE
       ELSE /\ CLIENT_CAPTURE' = "some"
            /\ callers' = [callers EXCEPT ![c].pc = "idle", ![c].holds = FALSE]
    /\ UNCHANGED <<capture_poisoned, capture_stopped, calls_made>>
    /\ UNCHANGED non_capture_vars

\* capture_image: CLIENT_CAPTURE.lock().unwrap().replace(client_capture), then the
\* image_result?, the ratio check and the resize, and the return
CapturePut(c) ==
    /\ callers[c].pc = "cap_put"
    /\ IF capture_poisoned
       THEN /\ Crash(c, FALSE)
            /\ UNCHANGED CLIENT_CAPTURE
       ELSE /\ CLIENT_CAPTURE' = "some"
            /\ callers' = [callers EXCEPT ![c].pc = "idle", ![c].holds = FALSE]
    /\ UNCHANGED <<capture_poisoned, capture_stopped, calls_made>>
    /\ UNCHANGED non_capture_vars

\* release_capture: if is_capture_initialized()
ReleaseCheck(c) ==
    /\ callers[c].pc = "rel_check"
    /\ IF capture_poisoned
       THEN Crash(c, FALSE)
       ELSE IF CLIENT_CAPTURE = "some"
       THEN callers' = [callers EXCEPT ![c].pc = "rel_take"]
       ELSE callers' = [callers EXCEPT ![c].pc = "idle", ![c].result = "not_initialized"]
    /\ UNCHANGED <<CLIENT_CAPTURE, capture_poisoned, capture_stopped, calls_made>>
    /\ UNCHANGED non_capture_vars

\* release_capture: let client_capture = CLIENT_CAPTURE.lock().unwrap().take().unwrap()
ReleaseTake(c) ==
    /\ callers[c].pc = "rel_take"
    /\ IF capture_poisoned
       THEN /\ Crash(c, FALSE)
            /\ UNCHANGED <<CLIENT_CAPTURE, capture_poisoned>>
       ELSE IF CLIENT_CAPTURE = "none"
       THEN /\ Crash(c, HeldByOther(c))
            /\ capture_poisoned' = TRUE
            /\ UNCHANGED CLIENT_CAPTURE
       ELSE /\ CLIENT_CAPTURE' = "none"
            /\ callers' = [callers EXCEPT ![c].pc = "rel_stop", ![c].holds = TRUE]
            /\ UNCHANGED capture_poisoned
    /\ UNCHANGED <<capture_stopped, calls_made>>
    /\ UNCHANGED non_capture_vars

\* release_capture: client_capture.stop(), and the handle is dropped
ReleaseStop(c) ==
    /\ callers[c].pc = "rel_stop"
    /\ capture_stopped' = TRUE
    /\ callers' = [callers EXCEPT ![c].pc = "idle", ![c].holds = FALSE, ![c].result = "released"]
    /\ UNCHANGED <<CLIENT_CAPTURE, capture_poisoned, calls_made>>
    /\ UNCHANGED non_capture_vars

CaptureInit ==
    /\ OcrInit
    /\ MergeIdle
    /\ PageIdle
    /\ ClassIdle
    /\ CaptureIdle
    /\ ScanIdle

CaptureNext ==
    \/ \E c \in Callers : CallStart(c)
    \/ \E c \in Callers : CaptureTake(c)
    \/ \E c \in Callers : CaptureGrab(c)
    \/ \E c \in Callers : CapturePut(c)
    \/ \E c \in Callers : ReleaseCheck(c)
    \/ \E c \in Callers : ReleaseTake(c)
    \/ \E c \in Callers : ReleaseStop(c)

CaptureSpec == CaptureInit /\ [][CaptureNext]_vars

(***************************************************************************)
(* The classification of the accepted pages (src/src/main.rs 249-260,      *)
(* src/src/record.rs 155-220 and 352-365): main spawns one task per page,  *)
(* a page task spawns one task per row, a row task decodes its fields.     *)
(* The OCR engine answers every request once, in any order.                *)
(***************************************************************************)
\* the entries of `order` that are in `handles`, in the order of `order`
RECURSIVE Among(_, _)
Among(order, handles) ==
    IF order = <<>> THEN <<>>
    ELSE IF \E i \in 1..Len(handles) : handles[i] = order[1]
    THEN <<order[1]>> \o Among(Tail(order), handles)
    ELSE Among(Tail(order), handles)

\* a bug: the outputs come in the order in which the tasks ended
join_all_as_completed(handles, ended) == Among(ended, handles)

\* futures::future::join_all(handles).await: the outputs of all the tasks, in the
\* order of the handles whatever the order `ended` in which the tasks ended
join_all(handles, ended) == handles

\* .take_while(is_ok): the outputs before the first that is not Ok
take_while_ok(outputs) ==
    SubSeq(outputs, 1, FirstFailure([i \in 1..Len(outputs) |-> outputs[i].ok]) - 1)

\* .flat_map(|result| ..): the pages' rows, page after page
RECURSIVE flat_map(_)
flat_map(results) ==
    IF results = <<>> THEN <<>> ELSE results[1] \o flat_map(Tail(results))

\* the JoinHandle output of a row task that has ended
RowOutput(id) == [ok |-> row_tasks[id].pc = "ok", record |-> id]

\* a row task ends with Ok(record) or Err
RowEnds(id, ok) ==
    /\ row_tasks' = [row_tasks EXCEPT ![id] = [pc |-> IF ok THEN "ok" ELSE "err",
                                                field |-> row_tasks[id].field]]
    /\ completed' = Append(completed, id)

\* main: record_screens.into_iter().map(|s| spawn(s.gacha_records())).collect()
SpawnPages ==
    /\ scan_pc = "spawn"
    /\ page_tasks' = [p \in 1..ScanPages |-> "one_record_images"]
    /\ scan_pc' = "join_all"
    /\ UNCHANGED <<row_tasks, field_sent, in_flight, completed, page_results, scanned>>
    /\ UNCHANGED non_scan_vars

\* RecordScreen::gacha_records: one_record_images()?, then one spawn per row
PageSpawnRows(p) ==
    /\ page_tasks[p] = "one_record_images"
    /\ row_tasks' = [id \in RowIds |->
                       IF id[1] = p THEN [pc |-> "star", field |-> 0] ELSE row_tasks[id]]
    /\ page_tasks' = [page_tasks EXCEPT ![p] = "join_all"]
    /\ UNCHANGED <<scan_pc, field_sent, in_flight, completed, page_results, scanned>>
    /\ UNCHANGED non_scan_vars

\* OneRecordImage::gacha_record: let star = self.star()?
RowStar(id) ==
    /\ row_tasks[id].pc = "star"
    /\ \E star_ok \in BOOLEAN :
          IF star_ok
          THEN /\ row_tasks' = [row_tasks EXCEPT ![id] = [pc |-> "send", field |-> 1]]
               /\ UNCHANGED completed
          ELSE RowEnds(id, FALSE)
    /\ UNCHANGED <<scan_pc, page_tasks, field_sent, in_flight, page_results, scanned>>
    /\ UNCHANGED non_scan_vars

\* item_name / item_type / time_str: OCR_CLIENT.lock().unwrap().send(field image)
RowSend(id) ==
    /\ row_tasks[id].pc = "send"
    /\ field_sent' = field_sent \cup {<<id, row_tasks[id].field>>}
    /\ in_flight' = in_flight \cup {<<id, row_tasks[id].field>>}
    /\ row_tasks' = [row_tasks EXCEPT ![id].pc = "await"]
    /\ UNCHANGED <<scan_pc, page_tasks, completed, page_results, scanned>>
    /\ UNCHANGED non_scan_vars

\* item_name / item_type / timestamp: rx.await?? and the decoding of the text, then
\* the ? of gacha_record and its next field, or Ok(GachaRecord::new(..))
RowReceive(id) ==
    /\ row_tasks[id].pc = "await"
    /\ <<id, row_tasks[id].field>> \in in_flight
    /\ in_flight' = in_flight \ {<<id, row_tasks[id].field>>}
    /\ \E decoded \in BOOLEAN :
          IF ~decoded THEN RowEnds(id, FALSE)
          ELSE IF row_tasks[id].field < Len(RowFields)
          THEN /\ row_tasks' = [row_tasks EXCEPT ![id] = [pc |-> "send",
                                                         field |-> row_tasks[id].field + 1]]
               /\ UNCHANGED completed
          ELSE RowEnds(id, TRUE)
    /\ UNCHANGED <<scan_pc, page_tasks, field_sent, page_results, scanned>>
    /\ UNCHANGED non_scan_vars

\* RecordScreen::gacha_records: join_all(handles).await, take_while, collect
PageJoin(p) ==
    /\ page_tasks[p] = "join_all"
    /\ \A r \in 1..ScanRows : row_tasks[<<p, r>>].pc \in {"ok", "err"}
    /\ LET handles == [r \in 1..ScanRows |-> <<p, r>>]
           results == join_all(handles, completed)
           outputs == [i \in 1..Len(results) |-> RowOutput(results[i])]
           oks == take_while_ok(outputs)
       IN  page_results' = [page_results EXCEPT ![p] = [i \in 1..Len(oks) |-> oks[i].record]]
    /\ page_tasks' = [page_tasks EXCEPT ![p] = "ended"]
    /\ completed' = Append(completed, <<p, 0>>)
    /\ UNCHANGED <<scan_pc, row_tasks, field_sent, in_flight, scanned>>
    /\ UNCHANGED non_scan_vars

\* main: join_all(handles).await, then flat_map(|result| result.unwrap().unwrap())
MainJoin ==
    /\ scan_pc = "join_all"
    /\ \A p \in 1..ScanPages : page_tasks[p] = "ended"
    /\ LET handles == [p \in 1..ScanPages |-> <<p, 0>>]
           results == join_all(handles, completed)
       IN  scanned' = flat_map([i \in 1..Len(results) |-> page_results[results[i][1]]])
    /\ scan_pc' = "collected"
    /\ UNCHANGED <<page_tasks, row_tasks, field_sent, in_flight, completed, page_results>>
    /\ UNCHANGED non_scan_vars

\* main line 249: the pagination run has accepted ScanPages pages
ScanInit ==
    /\ OcrInit
    /\ MergeIdle
    /\ PageIdle
    /\ ClassIdle
    /\ CaptureIdle
    /\ scan_pc = "spawn"
    /\ page_tasks = [p \in 1..ScanPages |-> "unspawned"]
    /\ row_tasks = [id \in RowIds |-> IdleRow]
    /\ field_sent = {}
    /\ in_flight = {}
    /\ completed = <<>>
    /\ page_results = [p \in 1..ScanPages |-> <<>>]
    /\ scanned = <<>>

ScanNext ==
    \/ SpawnPages
    \/ \E p \in 1..ScanPages : PageSpawnRows(p)
    \/ \E id \in RowIds : RowStar(id)
    \/ \E id \in RowIds : RowSend(id)
    \/ \E id \in RowIds : RowReceive(id)
    \/ \E p \in 1..ScanPages : PageJoin(p)
    \/ MainJoin

ScanSpec == ScanInit /\ [][ScanNext]_vars

(***************************************************************************)
(* Properties of merge_gacha_records.                                      *)
(***************************************************************************)
\* newest first: no record is later than the one before it
NonIncreasing(records) ==
    \A i \in 1..Len(records) : \A j \in 1..Len(records) :
        i < j => records[i].timestamp >= records[j].timestamp

\* newest first with no two records sharing a timestamp
StrictlyDescending(records) ==
    \A i \in 1..Len(records) : \A j \in 1..Len(records) :
        i < j => records[i].timestamp > records[j].timestamp

\* the last i records of a are the first i records of b, field by field
Overlaps(a, b, i) ==
    /\ i <= Len(a)
    /\ i <= Len(b)
    /\ \A j \in 1..i :
          /\ a[Len(a) - i + j].star = b[j].star
          /\ a[Len(a) - i + j].item_name = b[j].item_name
          /\ a[Len(a) - i + j].item_type = b[j].item_type
          /\ a[Len(a) - i + j].timestamp = b[j].timestamp

\* the overlap length k of the glossary
OverlapLength(a, b) ==
    IF \E i \in 1..Len(b) : Overlaps(a, b, i)
    THEN CHOOSE i \in 1..Len(b) :
            Overlaps(a, b, i) /\ \A j \in 1..Len(b) : Overlaps(a, b, j) => j <= i
    ELSE 0

\* a without its last k records, followed by all of b
Assembled(a, b) ==
    [j \in 1..(Len(a) - OverlapLength(a, b) + Len(b)) |->
        IF j <= Len(a) - OverlapLength(a, b) THEN a[j]
        ELSE b[j - (Len(a) - OverlapLength(a, b))]]

BothNonEmpty == new_records /= <<>> /\ old_records /= <<>>

\* the side merge keeps in front: new, unless its first record is strictly earlier
LaterSide ==
    IF new_records[1].timestamp < old_records[1].timestamp THEN old_records ELSE new_records
EarlierSide ==
    IF new_records[1].timestamp < old_records[1].timestamp THEN new_records ELSE old_records

\* C5 as stated: an empty side returns the other side with added = its length.
C5_EmptySideAddsItsLength ==
    merge_result.called =>
        /\ old_records = <<>> => merge_result = MergeOk(new_records, Len(new_records))
        /\ new_records = <<>> => merge_result = MergeOk(old_records, Len(old_records))

\* C5 amended: merge(A, []) = (A, len(A)) and merge([], B) = (B, 0): an empty new
\* side adds nothing.
C5_EmptySide ==
    merge_result.called =>
        /\ (old_records = <<>> /\ new_records /= <<>>) =>
              merge_result = MergeOk(new_records, Len(new_records))
        /\ new_records = <<>> => merge_result = MergeOk(old_records, 0)

\* C5 witness: merge was called with an empty new side and several old records.
C5_Witness ==
    /\ merge_result.called
    /\ new_records = <<>>
    /\ Len(old_records) >= 2
    /\ merge_result.ok

\* C6 as stated: for non-empty inputs with new's first timestamp not earlier than
\* old's, merge returns new without its last k records followed by old, k the largest
\* overlap (0 if none), with added = len(new) - k.  Stated for inputs that are each
\* ordered newest first, the inputs the reconciler is meant for.
C6_AlwaysReturnsAssembled ==
    (/\ merge_result.called
     /\ BothNonEmpty
     /\ NonIncreasing(new_records)
     /\ NonIncreasing(old_records)
     /\ new_records[1].timestamp >= old_records[1].timestamp)
    => merge_result =
          MergeOk(Assembled(new_records, old_records),
                  Len(new_records) - OverlapLength(new_records, old_records))

\* C6 amended: for such inputs merge assembles new without its last k records
\* followed by old, k the largest overlap (0 if none); it returns that sequence with
\* added = len(new) - k when the sequence is non-increasing by timestamp, and the
\* order-violation error otherwise.
C6_OverlapAndResult ==
    (/\ merge_result.called
     /\ BothNonEmpty
     /\ new_records[1].timestamp >= old_records[1].timestamp)
    => merge_result =
          IF NonIncreasing(Assembled(new_records, old_records))
          THEN MergeOk(Assembled(new_records, old_records),
                       Len(new_records) - OverlapLength(new_records, old_records))
          ELSE MergeErr

\* C6 witness: a successful merge whose overlap is shorter than both sides, with a
\* shorter match of the tail and head as well (the largest has to be chosen).
C6_Witness ==
    /\ merge_result.ok
    /\ BothNonEmpty
    /\ new_records[1].timestamp >= old_records[1].timestamp
    /\ OverlapLength(new_records, old_records) = 2
    /\ Overlaps(new_records, old_records, 1)
    /\ Len(new_records) > 2
    /\ merge_result.added = Len(new_records) - 2

\* C7: whatever merge returns as a success is non-increasing by timestamp.
C7_SuccessIsOrdered ==
    merge_result.ok => NonIncreasing(merge_result.records)

\* C8 as stated: for non-empty inputs, merge fails whenever the assembled sequence is
\* not strictly time-descending.
C8_FailsUnlessStrictlyDescending ==
    (merge_result.called /\ BothNonEmpty) =>
        (~StrictlyDescending(Assembled(LaterSide, EarlierSide)) => merge_result = MergeErr)

\* C8 amended: for non-empty inputs, merge fails whenever some record of the
\* assembled sequence has a strictly later timestamp than the record before it;
\* records with equal timestamps are accepted.
C8_FailsUnlessNonIncreasing ==
    (merge_result.called /\ BothNonEmpty) =>
        /\ ~NonIncreasing(Assembled(LaterSide, EarlierSide)) => merge_result = MergeErr
        /\ (/\ NonIncreasing(Assembled(LaterSide, EarlierSide))
            /\ ~StrictlyDescending(Assembled(LaterSide, EarlierSide))) => merge_result.ok

\* C8 witness: two ordered sequences with interleaved timestamps and no overlap,
\* rejected by the order check.
C8_Witness ==
    /\ merge_result = MergeErr
    /\ BothNonEmpty
    /\ NonIncreasing(new_records)
    /\ NonIncreasing(old_records)
    /\ OverlapLength(LaterSide, EarlierSide) = 0
    /\ LaterSide[Len(LaterSide)].timestamp < EarlierSide[1].timestamp

\* C9: for ordered inputs, merge(new, old) and merge(old, new) both fail or both
\* succeed with the same merged sequence.
C9_Symmetric ==
    (merge_result.called /\ NonIncreasing(new_records) /\ NonIncreasing(old_records)) =>
        LET swapped == merge_gacha_records(old_records, new_records)
        IN  /\ swapped.ok = merge_result.ok
            /\ merge_result.ok => swapped.records = merge_result.records

\* new = P \o old for a P of length p
EndsWithOld(p) ==
    /\ Len(new_records) = p + Len(old_records)
    /\ \A j \in 1..Len(old_records) : new_records[p + j] = old_records[j]

\* C10: when new is ordered and ends with the whole of old, merge returns new itself
\* and added = len(P).
C10_NewEndsWithOld ==
    \A p \in 0..MaxRecords :
        (/\ merge_result.called
         /\ NonIncreasing(new_records)
         /\ NonIncreasing(old_records)
         /\ EndsWithOld(p))
        => merge_result = MergeOk(new_records, p)

\* C10 witness: the shape of the overlap example, several stored records found
\* again at the end of a longer scan.
C10_Witness ==
    /\ merge_result.ok
    /\ Len(old_records) >= 2
    /\ \E p \in 1..MaxRecords : EndsWithOld(p)
    /\ NonIncreasing(new_records)
    /\ merge_result.records = new_records

\* every record of a is strictly later than every record of b
AllLater(a, b) ==
    \A i \in 1..Len(a) : \A j \in 1..Len(b) : a[i].timestamp > b[j].timestamp

\* C11: when both inputs are non-empty and ordered newest first and every record of
\* new is strictly later than every record of old, merge returns new followed by old
\* and added = len(new).
C11_DisjointNewerBatch ==
    (/\ merge_result.called
     /\ BothNonEmpty
     /\ NonIncreasing(new_records)
     /\ NonIncreasing(old_records)
     /\ AllLater(new_records, old_records))
    => merge_result = MergeOk(new_records \o old_records, Len(new_records))

\* C11 witness: a newer batch of several records (two of them sharing a timestamp)
\* merged in front of several stored records.
C11_Witness ==
    /\ merge_result.ok
    /\ Len(new_records) >= 2
    /\ Len(old_records) >= 2
    /\ NonIncreasing(new_records)
    /\ NonIncreasing(old_records)
    /\ AllLater(new_records, old_records)
    /\ merge_result.added = Len(new_records)

\* C12: when merge fails with an order violation, the stored records of the pull
\* category are left as they were, and once main has returned both inputs are kept
\* unmerged (the old sequence and this run's scanned sequence, each in its own file);
\* the merged file is written only after a successful merge.
C12_FailedMergeKeepsStore ==
    /\ merge_result = MergeErr =>
          /\ files["store"] = old_records
          /\ files["store_copy"] = NoFile
          /\ \A i \in 1..Len(writes) : writes[i] \in {"log_old", "log_this_time"}
          /\ main_pc = "exit" =>
                /\ files["log_old"] = old_records
                /\ files["log_this_time"] = new_records
    /\ (\E i \in 1..Len(writes) : writes[i] \in {"store", "store_copy"}) =>
          /\ merge_result.ok
          /\ files["store"] = merge_result.records

\* C12 witness: main has returned after a failed merge of two non-empty ordered
\* sequences that differ from each other.
C12_Witness ==
    /\ merge_result = MergeErr
    /\ main_pc = "exit"
    /\ Len(new_records) >= 2
    /\ Len(old_records) >= 2
    /\ NonIncreasing(new_records)
    /\ NonIncreasing(old_records)
    /\ writes = <<"log_old", "log_this_time">>

\* C24: merge swaps its two sides at most once: it re-enters itself with swapped
\* arguments only when both sides are non-empty and new's first timestamp is strictly
\* earlier than old's, and the swapped call does not swap again, so the recursion
\* depth is at most 2 for all inputs.
C24_SwapsAtMostOnce ==
    merge_result.called =>
        /\ merge_depth(new_records, old_records, 1) <= 2
        /\ merge_depth(new_records, old_records, 1) = 2 <=>
              (BothNonEmpty /\ new_records[1].timestamp < old_records[1].timestamp)
        /\ merge_depth(new_records, old_records, 1) = 2 =>
              /\ merge_depth(old_records, new_records, 1) = 1
              /\ merge_result = merge_gacha_records(old_records, new_records)

\* C24 witness: a merge that swapped, called with the stored records as new and a
\* later scan as old, and one with equal first timestamps that did not swap.
C24_Witness ==
    /\ merge_result.ok
    /\ Len(new_records) >= 2
    /\ Len(old_records) >= 2
    /\ new_records[1].timestamp < old_records[1].timestamp
    /\ merge_depth(new_records, old_records, 1) = 2
    /\ merge_result.records[1] = old_records[1]

\* a is the beginning of m, b is the end of m
IsPrefix(a, m) == Len(a) <= Len(m) /\ SubSeq(m, 1, Len(a)) = a
IsSuffix(b, m) == Len(b) <= Len(m) /\ SubSeq(m, Len(m) - Len(b) + 1, Len(m)) = b

\* C37: on every successful merge of two non-empty sequences no record is lost: the
\* side with the later (or equal) first timestamp is a prefix of the merged
\* sequence, the other side is a suffix of it, and len(merged) = len(new) + len(old)
\* - k where k is the overlap length.
C37_NoRecordLost ==
    (merge_result.called /\ merge_result.ok /\ BothNonEmpty) =>
        /\ IsPrefix(LaterSide, merge_result.records)
        /\ IsSuffix(EarlierSide, merge_result.records)
        /\ Len(merge_result.records) =
              Len(new_records) + Len(old_records) - OverlapLength(LaterSide, EarlierSide)

\* C37 witness: a successful merge of a three-record scan whose last two records are
\* the first two of a three-record store: four records result, both sides whole.
C37_Witness ==
    /\ merge_result.called
    /\ merge_result.ok
    /\ Len(new_records) >= 3
    /\ Len(old_records) >= 2
    /\ OverlapLength(new_records, old_records) = 2
    /\ Len(merge_result.records) = Len(new_records) + Len(old_records) - 2
    /\ new_records[1] /= new_records[2]

\* C38: the count returned by a successful merge is the number of records the merge
\* added to the caller's old sequence: added = len(merged) - len(old_records) for
\* the arguments as passed, for all inputs, swapped internally or not.
C38_AddedIsGrowthOfOld ==
    (merge_result.called /\ merge_result.ok) =>
        merge_result.added = Len(merge_result.records) - Len(old_records)

\* C39: re-merging a scan that is already merged adds nothing: for all ordered
\* sequences new and old for which merge(new, old) succeeds with result M,
\* merge(new, M) succeeds with result (M, 0); in particular merge(A, A) = (A, 0).
C39_RemergeAddsNothing ==
    (merge_result.called /\ merge_result.ok
       /\ NonIncreasing(new_records) /\ NonIncreasing(old_records)) =>
        /\ merge_gacha_records(new_records, merge_result.records)
              = MergeOk(merge_result.records, 0)
        /\ merge_gacha_records(new_records, new_records) = MergeOk(new_records, 0)

(***************************************************************************)
(* Properties of the pagination run.                                       *)
(***************************************************************************)
Advancing == page_pc \in {"adv_click", "adv_sleep", "adv_capture", "adv_index"}

\* C13: at every point of the pagination run the i-th accepted page is a capture
\* whose decoded page index is i, so the accepted list has the contiguous indices
\* 1..N with no gap, duplicate or reordering (at Done in particular).
C13_AcceptedIndicesContiguous ==
    \A i \in 1..Len(record_screens) :
        /\ record_screens[i].index = i
        /\ record_screens[i].img.grabbed

\* C13 witness: Done after every page of a listing of several pages was accepted,
\* the first one found by Rewinding.
C13_Witness ==
    /\ page_pc = "done"
    /\ Len(record_screens) = total_pages
    /\ total_pages >= 3
    /\ click_time >= 1
    /\ \A i \in 1..Len(record_screens) : record_screens[i].img.page = i

\* the game shows its last page and no re-render is pending
OnLastPage == ui_shown = total_pages /\ ui_target = total_pages

\* C14: when the game is on its last page during Advancing and every poll decodes
\* an index (the same one, since a next-page click no longer changes it), the poll
\* loop stops once the poll timeout has elapsed and the controller reaches Done; it
\* does not poll or click forever.
C14_LastPageReachesDone ==
    ([](page_pc /= "panicked")) => ((Advancing /\ OnLastPage) ~> (page_pc = "done"))

\* C14 witness: Done was reached by the timeout, on the last page, after a
\* next-page click that changed nothing.
C14_Witness ==
    /\ page_pc = "done"
    /\ OnLastPage
    /\ elapsed > PollTimeout
    /\ Len(record_screens) = total_pages
    /\ next_clicks = total_pages
    /\ total_pages >= 2

\* C15: a capture or classification failure at any controller step ends the run in
\* Failed, with an error description and the pages accepted so far; no failure
\* aborts the run, and no abort drops accepted pages.
C15_FailureYieldsFailed ==
    /\ error /= "none" => page_pc = "failed"
    /\ page_pc = "panicked" => record_screens = <<>>

(***************************************************************************)
(* Properties of the page classifiers.                                     *)
(***************************************************************************)
NoRows == [kind |-> "rows", rows |-> <<>>]

\* the star pixel of row position i matches no reference colour, for gacha_records
\* (equality) and for stars (tolerance)
ScreenMiss(i) == OneRecordImage_star(page.rows[i].color) = Err
ImageMiss(i) == rgb_to_star(page.rows[i].color) = Err

\* C16 as stated: for a valid listing page whose first row position matches no
\* reference colour, the classifier returns zero rows as a success and treats the
\* page as a listing page.
C16_EmptyPageIsValidPage ==
    page.index_ok =>
        /\ (screen_result /= NotCalled /\ ScreenMiss(1)) => screen_result = NoRows
        /\ (image_result /= NotCalled /\ ImageMiss(1)) => image_result = NoRows
        /\ (image_verdict /= NotCalled /\ ImageMiss(1)) => image_verdict.is_record_image

\* C16 amended: for such a page RecordScreen::gacha_records and RecordImage::records
\* return zero rows as a success, never an error; RecordImage::is_record_image
\* reports the page as not a record image, because it has no rows.
C16_EmptyPageYieldsNoRows ==
    page.index_ok =>
        /\ (screen_result /= NotCalled /\ ScreenMiss(1)) => screen_result = NoRows
        /\ (image_result /= NotCalled /\ ImageMiss(1)) => image_result = NoRows
        /\ (image_verdict /= NotCalled /\ ImageMiss(1)) => ~image_verdict.is_record_image

\* C16 witness: all three functions were applied to a page with a decodable index
\* whose first row position matches nothing while a later one does.
C16_Witness ==
    /\ class_pc = "done"
    /\ page.index_ok
    /\ ImageMiss(1)
    /\ page.rows[2].color = STAR_5_RGB
    /\ page.rows[2].fault = "none"
    /\ screen_result = NoRows
    /\ image_result = NoRows

\* the row positions of the rows a classifier returned, in the order returned
Positions(result) == [k \in 1..Len(result.rows) |-> result.rows[k].row]

\* the row positions 1..n in order
FirstRows(n) == [k \in 1..n |-> k]

\* the number of row positions before the first one that matches no reference colour
ScreenMatched == FirstFailure([i \in 1..MaxRows |-> ~ScreenMiss(i)]) - 1
ImageMatched == FirstFailure([i \in 1..MaxRows |-> ~ImageMiss(i)]) - 1

\* the number of row positions before the first one whose fields fail to decode
Decoded == FirstFailure([i \in 1..MaxRows |-> page.rows[i].fault = "none"]) - 1

\* C17 as stated: the rows a page yields are exactly the rows before the first row
\* position whose star pixel matches none of the three reference colours.
C17_RowsAreExactlyTheMatchedPrefix ==
    /\ screen_result /= NotCalled =>
          /\ screen_result.kind = "rows"
          /\ Positions(screen_result) = FirstRows(ScreenMatched)
    /\ image_result /= NotCalled =>
          /\ image_result.kind = "rows"
          /\ Positions(image_result) = FirstRows(ImageMatched)

\* C17 amended: the rows a page yields are leading rows from before the first row
\* position whose star pixel matches no reference colour, and no row at or after that
\* position is ever returned, even if a later position matches.  They are all of these
\* rows when every field of each of them decodes; otherwise gacha_records stops at the
\* first row with a field that fails, and RecordImage::records yields all of them if
\* only names failed and nothing at all (it panics) if a category or a time failed.
C17_RowsStopAtFirstMiss ==
    /\ screen_result /= NotCalled =>
          /\ screen_result.kind = "rows"
          /\ Positions(screen_result) = FirstRows(Min(ScreenMatched, Decoded))
    /\ image_result /= NotCalled =>
          IF \E i \in 1..ImageMatched : page.rows[i].fault \in {"type_unknown", "time_unparsable"}
          THEN image_result.kind = "panic"
          ELSE /\ image_result.kind = "rows"
               /\ Positions(image_result) = FirstRows(ImageMatched)

\* C17 witness: a page whose second row position matches nothing while the first and
\* the third do and decode; both classifiers return the first row only.
C17_Witness ==
    /\ class_pc = "done"
    /\ MaxRows >= 3
    /\ ~ScreenMiss(1) /\ ImageMiss(2) /\ ~ScreenMiss(3)
    /\ page.rows[1].fault = "none"
    /\ page.rows[3].fault = "none"
    /\ Positions(screen_result) = <<1>>
    /\ Positions(image_result) = <<1>>

\* C18: when the fields of row position i fail to decode (and the rows before it
\* decode), the classifier returns the rows before i as a success: the rows from i on
\* are dropped and the classifier neither fails nor aborts.
C18_FieldFailureTruncates ==
    \A i \in 1..MaxRows :
        (/\ Decoded = i - 1
         /\ ScreenMatched >= i)
        => /\ screen_result /= NotCalled =>
                 /\ screen_result.kind = "rows"
                 /\ Positions(screen_result) = FirstRows(i - 1)
           /\ image_result /= NotCalled =>
                 /\ image_result.kind = "rows"
                 /\ Positions(image_result) = FirstRows(i - 1)

(***************************************************************************)
(* Properties of the shared capture handle.                                *)
(***************************************************************************)
\* C19: under any interleaving of concurrent capture_image and release_capture
\* calls, at most one call holds the handle, and no call finds the slot empty while
\* another call holds the handle and crashes on the missing handle.
C19_ExclusiveAndNoCrash ==
    /\ \A c \in Callers : \A d \in Callers :
          (callers[c].holds /\ callers[d].holds) => c = d
    /\ \A c \in Callers : ~callers[c].crashed_on_held

(***************************************************************************)
(* Properties of the OCR dispatch engine.                                  *)
(***************************************************************************)
\* request r has been submitted
Submitted(r) == r <= Len(sent)

\* request r has been submitted and its receiver has nothing yet
Outstanding(r) == Submitted(r) /\ rx[r] = <<>>

\* nothing is in flight any more: every channel is empty and every task has returned
Quiescent ==
    /\ id_img_result_channel = <<>>
    /\ id_img = <<>>
    /\ result_ch = <<>>
    /\ Len(tasks) = Len(sent)
    /\ \A t \in 1..Len(tasks) : tasks[t].pc \in {"done", "panicked"}

\* C1: a response channel never receives more than one response, never one produced
\* from another request's image, and once nothing is in flight every submitted
\* request has received exactly one.
C1_ExactlyOneOwnResponse ==
    /\ \A r \in Requests :
          /\ Len(rx[r]) <= 1
          /\ \A i \in 1..Len(rx[r]) : rx[r][i].img = r
          /\ rx[r] /= <<>> => Submitted(r)
    /\ Quiescent => \A r \in Requests : Submitted(r) => Len(rx[r]) = 1

\* C1 witness: all requests answered successfully by two workers, so two requests
\* held a worker at the same time and a third reused a pooled one.
C1_Witness ==
    /\ Quiescent
    /\ Len(sent) = MaxRequests
    /\ \A r \in Requests : Len(rx[r]) = 1 /\ rx[r][1].kind = "Ok"
    /\ workers_created = 2

\* C2: the ids of successive send calls strictly increase, and no two outstanding
\* requests share an id.
C2_IdsStrictlyIncrease ==
    /\ \A i \in 1..Len(sent) : \A j \in 1..Len(sent) : i < j => sent[i] < sent[j]
    /\ \A r \in Requests : \A q \in Requests :
          (Outstanding(r) /\ Outstanding(q) /\ r /= q) => sent[r] /= sent[q]

\* C2 witness: every send has been made and two requests are outstanding at once.
C2_Witness ==
    /\ Len(sent) = MaxRequests
    /\ \E r \in Requests : \E q \in Requests : r /= q /\ Outstanding(r) /\ Outstanding(q)

\* C3: under fair scheduling every submitted request eventually has a result on its
\* response channel.
C3_EveryRequestAnswered ==
    \A r \in Requests : Submitted(r) ~> (rx[r] /= <<>>)

\* C3 witness: all requests were outstanding together (none answered before the last
\* was submitted, all tasks spawned) and the first has now been answered.
C3_Witness ==
    /\ Len(sent) = MaxRequests
    /\ Len(tasks) = MaxRequests
    /\ rx[1] /= <<>>
    /\ \A r \in Requests : r /= 1 => Outstanding(r)
    /\ \E t \in 1..Len(tasks) : tasks[t].pc \in {"ocr", "push"}

\* the results sent for request r that are still in the result channel
QueuedFor(r) == {i \in 1..Len(result_ch) : result_ch[i].result.img = r}

\* C4: a request's image is handed to the backend at most once, one task at most
\* runs for it, and what that task reported, failure or not, is the one response
\* the request gets: reported before the backend is called for a failed encode,
\* start or checkout, after exactly one call otherwise.
C4_NoRetry ==
    /\ \A r \in Requests :
          /\ ocr_calls[r] <= 1
          /\ Cardinality({t \in 1..Len(tasks) : tasks[t].img = r}) <= 1
          /\ Cardinality(QueuedFor(r)) + Len(rx[r]) <= 1
    /\ \A t \in 1..Len(tasks) :
          tasks[t].pc = "done" =>
             /\ ocr_calls[tasks[t].img] =
                    (IF tasks[t].out \in {"ErrBase64", "ErrCreate", "ErrPop"} THEN 0 ELSE 1)
             /\ \/ \E i \in QueuedFor(tasks[t].img) :
                       result_ch[i] = [id |-> tasks[t].id,
                                       result |-> Result(tasks[t].out, tasks[t].img)]
                \/ rx[tasks[t].img] = <<Result(tasks[t].out, tasks[t].img)>>

\* C4 witness: one request was answered with the backend's failure after a single
\* call, another with a failure to start a worker.
C4_Witness ==
    \E r \in Requests : \E q \in Requests :
        /\ rx[r] = <<Result("ErrOcr", r)>>
        /\ ocr_calls[r] = 1
        /\ rx[q] = <<Result("ErrCreate", q)>>
        /\ ocr_calls[q] = 0

\* C20: a request that needs a worker takes an idle one from the pool or starts a
\* new one; under every interleaving no request fails because another request
\* emptied the pool between its emptiness check and its checkout: no task ends with
\* "Failed to pop ocr_processor".
C20_PopNeverFails ==
    \A t \in 1..Len(tasks) :
        /\ tasks[t].out /= "ErrPop"
        /\ tasks[t].pc = "pop" => ocr_processors /= <<>>

\* worker w is in the idle pool
InPool(w, pool) == \E i \in 1..Len(pool) : pool[i] = w

\* C21: a worker is owned by at most one in-flight request: no worker is held by two
\* requests, no worker is both in the idle pool and held by a request, and no worker
\* is in the pool twice.
C21_WorkerOwnedOnce ==
    /\ \A t \in 1..Len(tasks) : \A u \in 1..Len(tasks) :
          (t /= u /\ tasks[t].worker /= 0) => tasks[t].worker /= tasks[u].worker
    /\ \A t \in 1..Len(tasks) :
          tasks[t].worker /= 0 => ~InPool(tasks[t].worker, ocr_processors)
    /\ \A i \in 1..Len(ocr_processors) : \A j \in 1..Len(ocr_processors) :
          i /= j => ocr_processors[i] /= ocr_processors[j]

\* C21 witness: the only worker created so far was used by the first request,
\* checked in, and is now held by the second request, which popped it.
C21_Witness ==
    /\ Len(tasks) >= 2
    /\ workers_created = 1
    /\ tasks[1].out = "Ok"
    /\ tasks[2].pc = "ocr"
    /\ tasks[2].worker = 1
    /\ ocr_processors = <<>>

\* task t lets go of its worker in this step
LetsGo(t) == tasks[t].worker /= 0 /\ tasks'[t].worker = 0

\* C22 as stated: when a request has finished using a worker, the worker is back in
\* the idle pool, whether the backend call succeeded or returned an error.
C22_WorkerAlwaysReturned ==
    [][\A t \in 1..Len(tasks) :
          LetsGo(t) => InPool(tasks[t].worker, ocr_processors')]_vars

\* C22 amended: after a backend call that succeeded the worker is back in the idle
\* pool, before the response is parsed; after a backend call that returned an error
\* the request returns without checking the worker in, and the worker is dropped.
C22_WorkerReturnedOnSuccessOnly ==
    [][\A t \in 1..Len(tasks) :
          LetsGo(t) =>
              IF tasks'[t].pc = "parse"
              THEN /\ tasks[t].pc = "push"
                   /\ InPool(tasks[t].worker, ocr_processors')
              ELSE /\ tasks[t].pc = "ocr"
                   /\ tasks'[t].pc \in {"done", "panicked"}
                   /\ ~InPool(tasks[t].worker, ocr_processors')]_vars

\* C22 witness: the first request's backend call failed and its worker is gone; the
\* second request's call succeeded and its worker is the only one in the pool.
C22_Witness ==
    /\ Len(tasks) >= 2
    /\ tasks[1].out = "ErrOcr"
    /\ tasks[2].out = "Ok"
    /\ workers_created = 2
    /\ ocr_processors = <<2>>

\* C23: the worker-pool lock is never held while a backend call (or a backend start)
\* is in progress: it is held only within the emptiness check, the checkout and the
\* check-in, so whenever a backend call is running the lock is free or held by a
\* request that is finishing its checkout.
C23_NoLockAcrossBackendCall ==
    /\ \A t \in 1..Len(tasks) : tasks[t].pc \in {"ocr", "create"} => pool_lock /= t
    /\ pool_lock /= 0 => (pool_lock <= Len(tasks) /\ tasks[pool_lock].pc = "popped")

\* C23 witness: the first request's backend call is running with the first worker,
\* two later requests have obtained the second worker in turn and completed, and
\* the lock is free.
C23_Witness ==
    /\ Len(tasks) >= 3
    /\ tasks[1].pc = "ocr"
    /\ tasks[1].worker = 1
    /\ tasks[2].out = "Ok"
    /\ tasks[3].out = "Ok"
    /\ workers_created = 2
    /\ pool_lock = 0

(***************************************************************************)
(* Properties of the three phases of the pagination run (src/src/main.rs). *)
(***************************************************************************)
Locating == page_pc \in {"loc_capture", "loc_index"}
Rewinding == page_pc \in {"rew_click", "rew_sleep", "rew_capture", "rew_index"}

\* a step that injects a click
Clicks == page_pc \in {"rew_click", "adv_click"} /\ page_pc' \in {"rew_sleep", "adv_sleep"}

\* C25: Locating injects no click and decides from one capture: the capture is taken
\* once, no click has been injected and no page accepted while Locating, and the
\* step that classifies the capture either accepts it with index 1 as page 1 and
\* starts Advancing (the capture shows page 1), or starts Rewinding with no page
\* accepted (it shows a page after 1), or ends the run in Failed with no click and no
\* page accepted; a capture that shows no page index always takes the last way.
C25_LocatingDecidesFromOneCapture ==
    [][/\ Locating => /\ ~Clicks
                       /\ click_time = 0 /\ next_clicks = 0 /\ ui_target' = ui_target
                       /\ record_screens = <<>>
       /\ page_pc' = "loc_index" => page_pc \in {"loc_capture", "loc_index"}
       /\ page_pc' = "loc_capture" => page_pc = "loc_capture"
       /\ (page_pc = "loc_index" /\ page_pc' /= "loc_index") =>
             /\ page_img /= NoImg
             /\ \/ /\ page_pc' = "adv_click"
                   /\ page_img.page = 1
                   /\ record_screens' = <<RecordScreen(page_img, 1)>>
                   /\ error' = "none"
                \/ /\ page_pc' = "rew_click"
                   /\ page_img.page > 1
                   /\ record_screens' = <<>>
                   /\ error' = "none"
                \/ /\ page_pc' = "failed"
                   /\ error' = "Failed to get index"
                   /\ record_screens' = <<>>
                   /\ click_time' = 0 /\ next_clicks' = 0
             /\ page_img.page = 0 => page_pc' = "failed"
      ]_vars

\* C25 witness: the run has ended in Failed from Locating, on a capture of a screen
\* that is not the record screen, with no click injected and no page accepted.
C25_Witness ==
    /\ page_pc = "failed"
    /\ error = "Failed to get index"
    /\ ui_shown = 0
    /\ click_time = 0
    /\ next_clicks = 0
    /\ record_screens = <<>>

\* C26: Rewinding only injects previous-page clicks, at most 21 of them, and always
\* terminates, in one of two ways: a capture with index 1 is accepted as page 1 and
\* Advancing starts, or the run ends in Failed.
C26_RewindingEndsAcceptedOrFailed ==
    /\ [](Rewinding => next_clicks = 0 /\ click_time <= MaxRewindClicks + 1)
    /\ Rewinding ~> \/ /\ page_pc = "adv_click"
                       /\ Len(record_screens) = 1
                       /\ record_screens[1].index = 1
                    \/ page_pc = "failed"

\* C27: a recapture of Rewinding whose page index cannot be decoded is followed by a
\* further click/recapture cycle while the click budget lasts: the classification
\* step of Rewinding ends the run only in Failed, and only once the budget is
\* exhausted; a single failed decode never ends the run.
C27_RewindingRetriesFailedDecode ==
    [][(page_pc = "rew_index" /\ page_pc' /= "rew_index") =>
          \/ page_pc' = "rew_click"
          \/ page_pc' = "adv_click"
          \/ page_pc' = "failed" /\ click_time > MaxRewindClicks
      ]_vars

\* C28: during Advancing a capture is accepted if and only if its decoded index is the
\* number of pages accepted so far plus 1 (a poll that decodes the same page or a
\* page further ahead leaves the accepted pages as they are), and exactly one
\* next-page click is injected between two consecutive acceptances.
C28_AdvancingAcceptsExactlyTheNextPage ==
    /\ [](Advancing =>
            next_clicks = Len(record_screens) - (IF page_pc = "adv_click" THEN 1 ELSE 0))
    /\ [][(page_pc = "adv_index" /\ page_pc' \notin {"adv_index", "panicked"}) =>
             IF page_img.page = Len(record_screens) + 1
             THEN /\ record_screens' = Append(record_screens,
                                              RecordScreen(page_img, Len(record_screens) + 1))
                  /\ page_pc' = "adv_click"
             ELSE /\ record_screens' = record_screens
                  /\ page_pc' \in {"adv_capture", "done"}
         ]_vars
    /\ [][Len(record_screens') > Len(record_screens) =>
             /\ page_pc \in {"loc_index", "rew_index", "adv_index"}
             /\ record_screens' = Append(record_screens,
                                         RecordScreen(page_img, Len(record_screens) + 1))
         ]_vars

\* C28 witness: three pages accepted with one next-page click before each of pages 2
\* and 3, and a third click after which only page 3 was polled until the timeout.
C28_Witness ==
    /\ page_pc = "done"
    /\ Len(record_screens) = 3
    /\ next_clicks = 3
    /\ \A i \in 1..3 : record_screens[i].img.page = i

\* a step that takes a capture, and a step that ends a settle delay
Captures == page_img' /= NoImg /\ page_img' /= page_img
Settles == page_pc \in {"rew_sleep", "adv_sleep"} /\ page_pc' \in {"rew_capture", "adv_capture"}

\* C29: the capture/click cycle is strictly sequential: a click is injected only when no
\* capture is held for classification, a capture is taken only when the one before
\* it has been classified, a capture is held only while its index is being decoded,
\* and the step after a click is the settle delay, which ends before the next
\* capture is taken (a capture is taken right after a settle delay or, in
\* Advancing, right after the classification of a poll that injected no click).
C29_CycleIsSequential ==
    /\ [](page_img /= NoImg => page_pc \in {"loc_index", "rew_index", "adv_index"})
    /\ [][Clicks => page_img = NoImg /\ page_img' = NoImg]_vars
    /\ [][Captures => /\ page_img = NoImg
                      /\ page_pc \in {"loc_capture", "rew_capture", "adv_capture"}
                      /\ ui_target' = ui_target
                      /\ next_clicks' = next_clicks]_vars
    /\ [][ui_target' /= ui_target \/ next_clicks' /= next_clicks => Clicks]_vars
    /\ [][(page_pc \in {"rew_sleep", "adv_sleep"} /\ page_pc' /= page_pc) => Settles]_vars
    /\ [][(page_pc' \in {"rew_capture", "adv_capture"} /\ page_pc' /= page_pc) =>
             \/ Settles
             \/ page_pc = "adv_index" /\ page_img' = NoImg]_vars

\* C29 witness: in Advancing, after the second next-page click and its settle delay, a
\* capture is held for classification.
C29_Witness ==
    /\ page_pc = "adv_index"
    /\ page_img /= NoImg
    /\ next_clicks = 2
    /\ Len(record_screens) = 2
    /\ ui_target = ui_shown

\* a frame that has passed the 16:9 check and has the canonical 1920x1080 resolution
Normalised(frame) == frame.grabbed /\ frame.ratio169 /\ frame.canonical

\* C30: every image handed to the classifier and every accepted page has passed the
\* 16:9 aspect-ratio check and has the canonical 1920x1080 resolution, in Locating,
\* Rewinding and Advancing alike.
C30_EveryImageIsNormalised ==
    /\ page_img /= NoImg => Normalised(page_img)
    /\ \A i \in 1..Len(record_screens) : Normalised(record_screens[i].img)

(***************************************************************************)
(* Properties of the classification of the accepted pages.                 *)
(***************************************************************************)
\* C31: within one row the OCR requests for the name, the category and the timestamp
\* are all submitted before any of their responses is awaited: a row task that is
\* waiting for a response has sent all three of its fields.
C31_RowFieldsSubmittedTogether ==
    \A id \in RowIds :
        row_tasks[id].pc = "await" =>
            \A f \in 1..Len(RowFields) : <<id, f>> \in field_sent

\* a row the page's classification keeps: it and every row above it decoded
KeptRow(id) == \A r \in 1..id[2] : row_tasks[<<id[1], r>>].pc = "ok"

\* row a comes before row b in page order and, within a page, in row order
RowBefore(a, b) == a[1] < b[1] \/ (a[1] = b[1] /\ a[2] < b[2])

\* the position in `completed` at which a task ended
EndedAt(id) == CHOOSE i \in 1..Len(completed) : completed[i] = id

\* C32: the scanned sequence handed to merge is the concatenation of the accepted
\* pages' rows in page order and, within a page, in row order, whatever the order in
\* which the page and row tasks and their OCR responses complete: it holds every
\* kept row once, and nothing else, in that order.
C32_ScannedInPageAndRowOrder ==
    scan_pc = "collected" =>
        /\ \A i \in 1..Len(scanned) : scanned[i] \in RowIds /\ KeptRow(scanned[i])
        /\ \A id \in RowIds : KeptRow(id) => \E i \in 1..Len(scanned) : scanned[i] = id
        /\ \A i, j \in 1..Len(scanned) : i < j => RowBefore(scanned[i], scanned[j])

\* C32 witness: every row of two pages was kept although the tasks ended in the
\* opposite order: the last row of page 2 first, page 2 before page 1, and within
\* page 1 row 2 before row 1.
C32_Witness ==
    /\ scan_pc = "collected"
    /\ Len(scanned) >= 4
    /\ completed[1] = <<2, 2>>
    /\ EndedAt(<<2, 0>>) < EndedAt(<<1, 0>>)
    /\ EndedAt(<<1, 2>>) < EndedAt(<<1, 1>>)

(***************************************************************************)
(* Properties of capture_image (src/src/capture.rs).                       *)
(***************************************************************************)
\* thread c returns from capture_image in this step
CaptureReturns(c) == callers[c].pc \in {"cap_grab", "cap_put"} /\ callers'[c].pc = "idle"

\* C33: capture_image always puts the capture handle back into the shared slot before
\* it returns: the call that returns had taken the handle out of the slot, and at its
\* return, whether the frame grab succeeded, the frame grab failed or the
\* aspect-ratio check rejected the frame, the slot holds that handle again.
C33_HandlePutBackBeforeReturn ==
    [][\A c \in Callers :
          CaptureReturns(c) =>
              /\ callers[c].holds
              /\ CLIENT_CAPTURE = "none"
              /\ callers'[c].result \in {"ok", "err_grab", "err_ratio"}
              /\ CLIENT_CAPTURE' = "some"
              /\ ~callers'[c].holds
              /\ capture_stopped' = capture_stopped
      ]_vars

\* C33 witness: one call has returned an error of the frame grab and another the
\* rejection of the aspect ratio, and the slot holds the handle.
C33_Witness ==
    /\ \E c \in Callers : callers[c].pc = "idle" /\ callers[c].result = "err_grab"
    /\ \E c \in Callers : callers[c].pc = "idle" /\ callers[c].result = "err_ratio"
    /\ CLIENT_CAPTURE = "some"
    /\ ~capture_stopped

(***************************************************************************)
(* Properties of the correlator and of the worker pool's size.             *)
(***************************************************************************)
\* the requests OcrServer2 has taken from its request channel, and the answered ones
AcceptedSoFar == {r \in Requests : r <= Len(sent) - Len(id_img_result_channel)}
Answered == {r \in Requests : rx[r] /= <<>>}

\* C34: whenever the correlator receives a result for an id, a pending-response slot
\* for that id exists: every id that is in the work queue, in a task or in the result
\* channel has its slot, the correlator's lookup never fails, and the number of slots
\* is the number of requests accepted and not yet answered.
C34_SlotExistsForEveryResult ==
    /\ server2_alive
    /\ \A i \in 1..Len(result_ch) : result_ch[i].id \in DOMAIN id_result_txs
    /\ \A i \in 1..Len(id_img) : id_img[i].id \in DOMAIN id_result_txs
    /\ \A t \in 1..Len(tasks) :
          tasks[t].pc \notin {"done", "panicked"} => tasks[t].id \in DOMAIN id_result_txs
    /\ Cardinality(DOMAIN id_result_txs) = Cardinality(AcceptedSoFar \ Answered)
    /\ Answered \subseteq AcceptedSoFar

\* C34 witness: a result is waiting in the result channel while two slots are pending
\* and one request has been answered already.
C34_Witness ==
    /\ result_ch /= <<>>
    /\ Cardinality(DOMAIN id_result_txs) = 2
    /\ Cardinality(Answered) = 1

\* C35: if a caller drops its response receiver before its result arrives, the
\* correlator keeps running and still delivers the responses of all other
\* outstanding and later requests: it is never stopped, later requests can still be
\* sent, and once nothing is in flight every submitted request whose receiver was
\* kept has its response.
C35_DropDoesNotStopDelivery ==
    /\ server2_alive
    /\ Quiescent => \A r \in Requests :
                        (Submitted(r) /\ r \notin rx_dropped) => Len(rx[r]) = 1

\* the OCR workers that exist: idle in the pool or held by a task
LiveWorkers ==
    Len(ocr_processors) + Cardinality({t \in 1..Len(tasks) : tasks[t].worker /= 0})

\* C36: the number of live OCR workers, idle in the pool plus held by requests, never
\* exceeds the largest number of requests that were in flight at the same time so
\* far, and nothing else caps it: the requests that find the pool empty each create
\* a worker.
C36_WorkersBoundedByPeakDemand ==
    /\ LiveWorkers <= peak_in_flight
    /\ LiveWorkers <= workers_created
    /\ workers_created <= Len(tasks)

\* C36 witness: every request of the run found the pool empty and created a worker
\* of its own, and all these workers are alive, with nothing in flight any more.
C36_Witness ==
    /\ workers_created = MaxRequests
    /\ LiveWorkers = MaxRequests
    /\ Len(ocr_processors) = MaxRequests
    /\ peak_in_flight = MaxRequests
    /\ InFlight = 0

(***************************************************************************)
(* Completeness of the pagination run.                                     *)
(***************************************************************************)
\* the poll loop of Advancing is running
Polling == page_pc \in {"adv_capture", "adv_index"}

\* the game has rendered the page the last click asked for before the poll timeout
\* has elapsed
RendersInTime == Polling /\ elapsed >= PollTimeout => ui_shown = ui_target

\* C40: if after every next-page click the UI shows the next page within the settle
\* delay plus the poll timeout, then at Done the number of accepted pages equals the
\* total number of pages of the listing.
C40_DoneHasEveryPage ==
    ([]RendersInTime) => [](page_pc = "done" => Len(record_screens) = total_pages)

====
